---- MODULE Spec2Model ----
(***************************************************************************)
(* A model of MaskTerial's flake container and COCO-style evaluator:       *)
(*   maskterial/structures/FlakeClass.py   Flake.to_dict                   *)
(*   maskterial/utils/evaluator.py         FlakeCOCOEvaluator,             *)
(*                                         FlakeCOCOeval.summarize,        *)
(*                                         evaluate_on_dataset              *)
(* Each part of the program has its own specification over its own group   *)
(* of variables; the other groups stay at their idle value.                *)
(***************************************************************************)
EXTENDS Integers, Sequences, FiniteSets, TLC

VARIABLES
    mask,          \* Flake.mask: [rows, cols, at], at[<<r, c>>] \in BOOLEAN
    to_dict_out,   \* outcome of the last Flake.to_dict call
    cfg,           \* FlakeCOCOEvaluator: constructor arguments, metadata, model kind
    world,         \* comm.get_world_size(): the number of processes (ranks)
    _predictions,  \* per rank: self._predictions ([set, list]; set = attribute exists)
    ret,           \* per rank: outcome of its call in the latest step (NoCall if none)
    next_image,    \* image id of the next input the data loader hands out
    total,         \* evaluate_on_dataset: len(test_loader)
    max_time_minutes,   \* [has, minutes]; has = FALSE stands for None
    pc,            \* position in evaluate_on_dataset
    idx,           \* index of the current loop iteration
    num_warmup,
    elapsed,       \* time.perf_counter() - start_time, in seconds
    total_data_time,
    total_compute_time,
    total_eval_time,
    stats,         \* the locals of the latest pass through lines 929-958
    calls,         \* the batches loaded and the model/evaluator calls made, in order
    result,        \* what evaluate_on_dataset returned
    iou_type,      \* _derive_coco_results: the task
    class_names,   \* [has, names]; has = FALSE stands for None
    coco_eval,     \* [none, cats, cell, stats]; none = TRUE stands for None
    derived,       \* outcome of _derive_coco_results
    metadata,      \* MetadataCatalog: per dataset name, its json_file attribute
    built,         \* outcome of the latest FlakeCOCOEvaluator(...) call
    max_sidelength,     \* Flake.__init__: the side lengths handed in
    min_sidelength,
    aspect_ratio,  \* [set, tenths]: self.aspect_ratio in tenths once it is set
    iouType,       \* FlakeCOCOeval.__init__: the arguments iouType and cocoGt
    cocoGt,
    params,        \* self.params once FlakeCOCOeval.__init__ has built it
    n_pred,        \* _evaluate_box_proposals, one image: len(predictions)
    n_gt,          \* len(gt_boxes), the ground-truth boxes of the area range
    overlaps,      \* the IoU of proposal i and ground-truth box k, in hundredths
    round_j,       \* the rounds of the greedy loop that have run
    _gt_overlaps,  \* the IoU recorded per round
    box_ind,       \* the proposal and the ground-truth box of the latest round
    gt_ind,
    match_pc       \* "loop", "appended", "skipped" or "AssertionError"

flakeVars == <<mask, to_dict_out>>
evalVars == <<cfg, world, _predictions, ret, next_image>>

driverVars ==
    <<total, max_time_minutes, pc, idx, num_warmup, elapsed, total_data_time,
      total_compute_time, total_eval_time, stats, calls, result>>

deriveVars == <<iou_type, class_names, coco_eval, derived>>

constructVars == <<metadata, built>>
aspectVars == <<max_sidelength, min_sidelength, aspect_ratio>>
paramsVars == <<iouType, cocoGt, params>>
matchVars == <<n_pred, n_gt, overlaps, round_j, _gt_overlaps, box_ind, gt_ind, match_pc>>

vars == <<flakeVars, evalVars, driverVars, deriveVars, constructVars, aspectVars,
          paramsVars, matchVars>>

(***************************************************************************)
(* Values shared by all parts.                                             *)
(***************************************************************************)
None == "None"
NotCalled == [kind |-> "not_called"]
Raised(e) == [kind |-> "raise", error |-> e]

(***************************************************************************)
(* Flake (FlakeClass.py)                                                   *)
(***************************************************************************)
MaxRows == 3
MaxCols == 3

\* the 2D binary arrays of shape (h, w)
Masks(h, w) ==
    { [rows |-> h, cols |-> w, at |-> f] :
        f \in [(0 .. h - 1) \X (0 .. w - 1) -> BOOLEAN] }

\* np.any(self.mask, axis=1): one flag per row
AnyAxis1(m) == [r \in 0 .. m.rows - 1 |-> \E c \in 0 .. m.cols - 1 : m.at[<<r, c>>]]
\* np.any(self.mask, axis=0): one flag per column
AnyAxis0(m) == [c \in 0 .. m.cols - 1 |-> \E r \in 0 .. m.rows - 1 : m.at[<<r, c>>]]

\* np.where(v)[0]: the indices holding True, ascending, as a 1-based sequence
RECURSIVE WhereFrom(_, _, _)
WhereFrom(v, i, n) ==
    IF i >= n THEN <<>>
    ELSE (IF v[i] THEN <<i>> ELSE <<>>) \o WhereFrom(v, i + 1, n)
Where(v, n) == WhereFrom(v, 0, n)

\* FirstLast with a guard that yields a placeholder instead of failing
FirstLastPlaceholder(a) ==
    IF Len(a) = 0 THEN [kind |-> "ok", first |-> 0, last |-> 0]
    ELSE [kind |-> "ok", first |-> a[1], last |-> a[Len(a)]]

\* a[[0, -1]] on a 1D array: IndexError on an empty array
FirstLast(a) ==
    IF Len(a) = 0 THEN Raised("IndexError")
    ELSE [kind |-> "ok", first |-> a[1], last |-> a[Len(a)]]

\* the bbox list of to_dict: [cmin, rmin, cmax - cmin, rmax - rmin]
BBox(rmin, rmax, cmin, cmax) == <<cmin, rmin, cmax - cmin, rmax - rmin>>

\* Flake.to_dict(return_bbox): the dictionary (only its bbox entry is modelled)
\* or the error the call ends with
to_dict(m, return_bbox) ==
    IF ~return_bbox THEN [kind |-> "dict", has_bbox |-> FALSE, bbox |-> <<>>]
    ELSE LET r == FirstLast(Where(AnyAxis1(m), m.rows))
             c == FirstLast(Where(AnyAxis0(m), m.cols))
         IN  IF r.kind = "raise" THEN r
             ELSE IF c.kind = "raise" THEN c
             ELSE [kind |-> "dict", has_bbox |-> TRUE,
                   bbox |-> BBox(r.first, r.last, c.first, c.last)]

FlakeIdle == mask = [rows |-> 0, cols |-> 0, at |-> <<>>] /\ to_dict_out = NotCalled

FlakeInit ==
    /\ \E h \in 0 .. MaxRows, w \in 0 .. MaxCols : mask \in Masks(h, w)
    /\ to_dict_out = NotCalled

ToDict ==
    /\ \E return_bbox \in BOOLEAN :
          to_dict_out' = [call |-> return_bbox] @@ to_dict(mask, return_bbox)
    /\ UNCHANGED mask

(***************************************************************************)
(* FlakeCOCOEvaluator (evaluator.py): reset, process, evaluate              *)
(***************************************************************************)
MaxWorld == 2          \* processes of a distributed run
MaxImages == 2         \* inputs the data loader hands out in one run
MaxBatch == 1          \* inputs of one process() call

\* thing_dataset_id_to_contiguous_id of the dataset's metadata: absent, or a
\* bijection from the dataset's category ids onto 0 .. num_classes - 1
NoIdMap == [has |-> FALSE, map |-> <<>>]
IdMaps ==
    { NoIdMap,
      [has |-> TRUE, map |-> [d \in {0, 1} |-> d]],
      [has |-> TRUE, map |-> [d \in {1, 2} |-> d - 1]] }
\* pred_classes a model can emit for a 2-class dataset, in and out of range
PredClasses == {-1, 0, 2}
\* the tasks argument; <<>> stands for None and for (), both falsy at line 230
TaskConfigs == { <<>>, <<"segm">>, <<"bbox", "depth">> }
\* the keys of the model's output dicts
ModelKinds == { "neither", "proposals", "instances", "both" }
OutputDirs == { None, "out" }

\* the output of the model for one image
ModelOutputs(kind) ==
    IF kind \in {"neither", "proposals"} THEN { <<>> }
    ELSE { <<>> } \cup { <<c>> : c \in PredClasses }

\* instances_to_coco_json(instances, img_id): one result per instance
\* (pred_class keeps the class the model predicted; it is not a field of the code)
instances_to_coco_json(classes, img_id) ==
    [k \in 1 .. Len(classes) |->
        [image_id |-> img_id, category_id |-> classes[k],
         segmentation |-> TRUE, pred_class |-> classes[k]]]

\* the prediction dict process() builds for one (input, output) pair
Prediction(kind, img_id, classes) ==
    [image_id |-> img_id,
     has_instances |-> kind \in {"instances", "both"},
     instances |-> IF kind \in {"instances", "both"}
                   THEN instances_to_coco_json(classes, img_id) ELSE <<>>,
     has_proposals |-> kind \in {"proposals", "both"}]

\* len(prediction): image_id plus the keys added
PredictionLen(p) ==
    1 + (IF p.has_instances THEN 1 ELSE 0) + (IF p.has_proposals THEN 1 ELSE 0)

NoAttr == [set |-> FALSE, list |-> <<>>]
\* the outcome of a call: what it returned (value) or raised (error), what it
\* did in order (log), the table it left in self._results (results; <<>> when
\* the call did not assign it) and the predictions it read (consumed)
\* (coco_results: the chained instance results as the call left them)
NoCall ==
    [op |-> "none", kind |-> "none", error |-> "", value |-> <<>>, log |-> <<>>,
     results |-> <<>>, consumed |-> <<>>, coco_results |-> <<>>,
     proposal_data |-> [ids |-> <<>>, bbox_mode |-> "none"]]
Returned(op, value, log) ==
    [NoCall EXCEPT !.op = op, !.kind = "return", !.value = value, !.log = log]
Failed(op, error, log) ==
    [NoCall EXCEPT !.op = op, !.kind = "raise", !.error = error, !.log = log]
Blocked(op) == [NoCall EXCEPT !.op = op, !.kind = "blocked"]

Ranks == 0 .. world - 1
\* the outcomes of a step in which only rank r made a call
Only(r, outcome) == [q \in Ranks |-> IF q = r THEN outcome ELSE NoCall]

EvaluatorIdle ==
    /\ cfg = [_distributed |-> FALSE, _output_dir |-> None, _tasks |-> <<>>,
              _do_evaluation |-> FALSE, id_map |-> NoIdMap, model |-> "neither"]
    /\ world = 1
    /\ _predictions = [r \in 0 .. 0 |-> NoAttr]
    /\ ret = [r \in 0 .. 0 |-> NoCall]
    /\ next_image = 0

\* FlakeCOCOEvaluator.__init__ on every rank; self._predictions does not exist yet
EvaluatorInit ==
    /\ cfg \in [_distributed : BOOLEAN, _output_dir : OutputDirs, _tasks : TaskConfigs,
                _do_evaluation : BOOLEAN, id_map : IdMaps, model : ModelKinds]
    /\ cfg.model \in {"neither", "proposals", "both"}
          => cfg._tasks = <<>> /\ cfg.id_map = NoIdMap
    /\ world \in 1 .. MaxWorld
    \* without distribution the processes do not interact: one other process
    \* stands for all the others
    /\ cfg._distributed \/ world <= 2
    /\ _predictions = [r \in 0 .. world - 1 |-> NoAttr]
    /\ ret = [r \in 0 .. world - 1 |-> NoCall]
    /\ next_image = 0

\* reset(): self._predictions = []
Reset(r) ==
    /\ _predictions' = [_predictions EXCEPT ![r] = [set |-> TRUE, list |-> <<>>]]
    /\ ret' = Only(r, Returned("reset", <<>>, <<>>))
    /\ UNCHANGED <<cfg, world, next_image>>

\* the loop of process(): the predictions appended for a batch, in order
RECURSIVE ProcessLoop(_, _, _, _)
ProcessLoop(list, batch, k, first_id) ==
    IF k > Len(batch) THEN list
    ELSE LET prediction == Prediction(cfg.model, first_id + k - 1, batch[k])
         IN  ProcessLoop(IF PredictionLen(prediction) > 1
                         THEN Append(list, prediction) ELSE list,
                         batch, k + 1, first_id)

\* process(inputs, outputs) on rank r; the append fails while self._predictions
\* does not exist
Process(r) ==
    \E n \in 1 .. MaxBatch :
        /\ next_image + n <= MaxImages
        /\ \E batch \in [1 .. n -> ModelOutputs(cfg.model)] :
              LET new == ProcessLoop(_predictions[r].list, batch, 1, next_image)
              IN  IF ~_predictions[r].set /\ new # <<>>
                  THEN /\ ret' = Only(r, Failed("process", "AttributeError", <<>>))
                       /\ UNCHANGED _predictions
                  ELSE /\ ret' = Only(r, Returned("process", <<>>, <<>>))
                       /\ _predictions' = [_predictions EXCEPT ![r].list = new]
        /\ next_image' = next_image + n
        /\ UNCHANGED <<cfg, world>>

\* list(itertools.chain(*lists)): the lists of ranks lo .. hi, in rank order
RECURSIVE Chain(_, _, _)
Chain(lists, lo, hi) ==
    IF lo > hi THEN <<>> ELSE lists[lo].list \o Chain(lists, lo + 1, hi)

\* a gather that hands each rank its own list only
GatheredOwn(r) == _predictions[r].list
\* comm.gather(self._predictions, dst=0), chained: what rank r holds afterwards
Gathered(r) == IF r = 0 THEN Chain(_predictions, 0, world - 1) ELSE <<>>

\* list(itertools.chain(*[x["instances"] for x in predictions]))
RECURSIVE CocoResults(_)
CocoResults(predictions) ==
    IF predictions = <<>> THEN <<>>
    ELSE Head(predictions).instances \o CocoResults(Tail(predictions))

\* the result dicts are shared with the predictions: the predictions as they
\* are after the results (the chained list) were changed in place
RECURSIVE WriteBack(_, _)
WriteBack(predictions, results) ==
    IF predictions = <<>> THEN <<>>
    ELSE LET n == Len(Head(predictions).instances)
         IN  <<[Head(predictions) EXCEPT !.instances = SubSeq(results, 1, n)]>>
             \o WriteBack(Tail(predictions), SubSeq(results, n + 1, Len(results)))

\* sorted(tasks) over the task names that occur
TaskOrder == <<"bbox", "depth", "keypoints", "segm">>
SortedTasks(S) == SelectSeq(TaskOrder, LAMBDA t : t \in S)
SeqRange(q) == { q[i] : i \in 1 .. Len(q) }

\* _tasks_from_predictions(coco_results)
_tasks_from_predictions(coco_results) ==
    SortedTasks({"bbox"}
                \cup (IF \E i \in 1 .. Len(coco_results) : coco_results[i].segmentation
                      THEN {"segm"} ELSE {}))

\* reverse_id_mapping = {v: k for k, v in dataset_id_to_contiguous_id.items()}
ReverseIdMapping(id_map) ==
    [c \in { id_map[d] : d \in DOMAIN id_map } |->
        CHOOSE d \in DOMAIN id_map : id_map[d] = c]

\* the loop "for result in coco_results" of _eval_predictions from index k on:
\* the list as changed in place, and the error that ended the loop ("" if none)
RECURSIVE UnmapFrom(_, _, _)
UnmapFrom(coco_results, k, id_map) ==
    IF k > Len(coco_results) THEN [list |-> coco_results, error |-> ""]
    ELSE LET category_id == coco_results[k].category_id
             num_classes == Cardinality(DOMAIN id_map)
             reverse_id_mapping == ReverseIdMapping(id_map)
         IN  IF ~(category_id < num_classes)
             THEN [list |-> coco_results, error |-> "AssertionError"]
             ELSE IF category_id \notin DOMAIN reverse_id_mapping
             THEN [list |-> coco_results, error |-> "KeyError"]
             ELSE UnmapFrom([coco_results EXCEPT
                                ![k].category_id = reverse_id_mapping[category_id]],
                            k + 1, id_map)

\* "unmap the category ids for COCO": only when the metadata has the mapping
Unmap(coco_results, id_map) ==
    IF id_map.has THEN UnmapFrom(coco_results, 1, id_map.map)
    ELSE [list |-> coco_results, error |-> ""]

\* the metrics table of one task, as far as the evaluator decides it: whether
\* the matching engine ran (coco_eval is None for no detection) and on which
\* (image, category) detections
Detections(coco_results) ==
    [k \in 1 .. Len(coco_results) |->
        <<coco_results[k].image_id, coco_results[k].category_id>>]
TaskTable(task, coco_results) ==
    [task |-> task, coco_eval_is_none |-> coco_results = <<>>,
     dt |-> Detections(coco_results)]
ProposalTable(predictions) ==
    [task |-> "box_proposals", coco_eval_is_none |-> FALSE,
     dt |-> [k \in 1 .. Len(predictions) |-> <<predictions[k].image_id, 0>>]]

\* a task set that lets "depth" pass
SupportedTasksWithDepth == {"bbox", "segm", "keypoints", "depth"}
\* line 267: assert task in {"bbox", "segm", "keypoints"}
SupportedTasks == {"bbox", "segm", "keypoints"}

\* the loop "for task in sorted(tasks)" of _eval_predictions from index k on:
\* the table of self._results, the log and the error that ended the loop
RECURSIVE TaskLoop(_, _, _, _, _)
TaskLoop(tasks, k, coco_results, table, log) ==
    IF k > Len(tasks) THEN [table |-> table, log |-> log, error |-> ""]
    ELSE LET task == tasks[k]
         IN  IF task \notin SupportedTasks
             THEN [table |-> table, log |-> log, error |-> "AssertionError"]
             ELSE IF task = "keypoints"
             \* FlakeParams has no setKpParams; the metrics dict has no "keypoints"
             THEN [table |-> table, log |-> log,
                   error |-> IF coco_results # <<>> THEN "AttributeError" ELSE "KeyError"]
             ELSE TaskLoop(tasks, k + 1, coco_results,
                           (task :> TaskTable(task, coco_results)) @@ table,
                           log \o (IF coco_results # <<>>
                                   THEN <<"coco_eval:" \o task>> ELSE <<>>)
                               \o <<"derive:" \o task>>)

\* _eval_box_proposals without the check for annotations
_eval_box_proposals_unguarded(predictions, table, log) ==
    [table |-> ("box_proposals" :> ProposalTable(predictions)) @@ table,
     log |-> log \o (IF cfg._output_dir # None
                     THEN <<"write:box_proposals.pkl">> ELSE <<>>)
                 \o <<"box_proposal_recall">>]

\* an _eval_box_proposals that saves the proposals only when it evaluates them
_eval_box_proposals_save_evaluated(predictions, table, log) ==
    IF ~cfg._do_evaluation
    THEN [table |-> table, log |-> log \o <<"info:no_annotations">>]
    ELSE _eval_box_proposals_unguarded(predictions, table, log)

\* lines 292-312: the dict pickled into box_proposals.pkl (boxes and scores
\* left out)
proposal_data(predictions) ==
    [ids |-> [k \in 1 .. Len(predictions) |-> predictions[k].image_id],
     bbox_mode |-> "XYXY_ABS"]

\* _eval_box_proposals(predictions): table and log afterwards
_eval_box_proposals(predictions, table, log) ==
    LET log1 == log \o (IF cfg._output_dir # None
                        THEN <<"write:box_proposals.pkl">> ELSE <<>>)
    IN  IF ~cfg._do_evaluation
        THEN [table |-> table, log |-> log1 \o <<"info:no_annotations">>]
        ELSE [table |-> ("box_proposals" :> ProposalTable(predictions)) @@ table,
              log |-> log1 \o <<"box_proposal_recall">>]

\* _eval_predictions(predictions): table, log, the coco results as left behind
\* in place, and the error it ended with ("" if it returned)
_eval_predictions(predictions, table, log) ==
    LET coco_results == CocoResults(predictions)
        tasks == IF cfg._tasks # <<>> THEN cfg._tasks
                 ELSE _tasks_from_predictions(coco_results)
        un == Unmap(coco_results, cfg.id_map)
        log1 == log \o (IF cfg._output_dir # None
                        THEN <<"write:coco_instances_results.json">> ELSE <<>>)
    IN  IF un.error # ""
        THEN [table |-> table, log |-> log, list |-> un.list, error |-> un.error]
        ELSE IF ~cfg._do_evaluation
        THEN [table |-> table, log |-> log1 \o <<"info:no_annotations">>,
              list |-> un.list, error |-> ""]
        ELSE LET tl == TaskLoop(SortedTasks(SeqRange(tasks)), 1, un.list, table, log1)
             IN  [table |-> tl.table, log |-> tl.log, list |-> un.list,
                  error |-> tl.error]

\* evaluate() from line 198 on, for a non-empty list:
\* [out: the outcome of the call, predictions: the predictions as left behind
\*  in place]
EvaluateNonEmpty(predictions) ==
    LET log0 == IF cfg._output_dir # None
                THEN <<"write:instances_predictions.pth">> ELSE <<>>
        bp == IF predictions[1].has_proposals
              THEN _eval_box_proposals(predictions, <<>>, log0)
              ELSE [table |-> <<>>, log |-> log0]
        ep == IF predictions[1].has_instances
              THEN _eval_predictions(predictions, bp.table, bp.log)
              ELSE [table |-> bp.table, log |-> bp.log,
                    list |-> CocoResults(predictions), error |-> ""]
        out == IF ep.error # "" THEN Failed("evaluate", ep.error, ep.log)
               ELSE Returned("evaluate", ep.table, ep.log)
    IN  [out |-> [out EXCEPT !.results = ep.table, !.consumed = predictions,
                             !.coco_results = ep.list,
                             !.proposal_data =
                                 IF "write:box_proposals.pkl" \in SeqRange(bp.log)
                                 THEN proposal_data(predictions) ELSE @],
         predictions |-> WriteBack(predictions, ep.list)]

\* EvaluateBody without the check for an empty list: predictions[0] fails
EvaluateBodyUnchecked(predictions) ==
    IF Len(predictions) = 0
    THEN [out |-> Failed("evaluate", "IndexError", <<>>), predictions |-> predictions]
    ELSE EvaluateNonEmpty(predictions)

\* evaluate() from line 194 on, on the process that holds `predictions`
EvaluateBody(predictions) ==
    IF Len(predictions) = 0
    THEN [out |-> Returned("evaluate", <<>>, <<"warning:no_predictions">>),
          predictions |-> predictions]
    ELSE EvaluateNonEmpty(predictions)

\* the files a call with this log wrote
Written(log) ==
    { f \in {"instances_predictions.pth", "box_proposals.pkl",
             "coco_instances_results.json"} : ("write:" \o f) \in SeqRange(log) }

\* EvaluateLocal with an evaluate() that empties the accumulator it consumed
EvaluateLocalDiscarding(r) ==
    /\ ~cfg._distributed
    /\ IF ~_predictions[r].set
       THEN /\ ret' = Only(r, Failed("evaluate", "AttributeError", <<>>))
            /\ UNCHANGED _predictions
       ELSE /\ ret' = Only(r, EvaluateBody(_predictions[r].list).out)
            /\ _predictions' = [_predictions EXCEPT ![r].list = <<>>]
    /\ UNCHANGED <<cfg, world, next_image>>

\* evaluate() with distributed=False on rank r: the local list, shared in place
EvaluateLocal(r) ==
    /\ ~cfg._distributed
    /\ IF ~_predictions[r].set
       THEN /\ ret' = Only(r, Failed("evaluate", "AttributeError", <<>>))
            /\ UNCHANGED _predictions
       ELSE LET e == EvaluateBody(_predictions[r].list)
            IN  /\ ret' = Only(r, e.out)
                /\ _predictions' = [_predictions EXCEPT ![r].list = e.predictions]
    /\ UNCHANGED <<cfg, world, next_image>>

\* evaluate() with distributed=True, called by every rank (comm.synchronize and
\* comm.gather are collective). A rank without self._predictions raises before
\* it joins the gather and the others wait for it for ever. With one process
\* gather returns the list itself; with more it returns unpickled copies.
EvaluateDistributed ==
    /\ cfg._distributed
    /\ IF \E r \in Ranks : ~_predictions[r].set
       THEN /\ ret' = [r \in Ranks |->
                          IF ~_predictions[r].set
                          THEN Failed("evaluate", "AttributeError", <<>>)
                          ELSE Blocked("evaluate")]
            /\ UNCHANGED _predictions
       ELSE LET e == EvaluateBody(Gathered(0))
            IN  /\ ret' = [r \in Ranks |->
                              IF r = 0 THEN e.out
                              ELSE Returned("evaluate", <<>>, <<>>)]
                /\ _predictions' = IF world = 1
                                   THEN [_predictions EXCEPT ![0].list = e.predictions]
                                   ELSE _predictions
    /\ UNCHANGED <<cfg, world, next_image>>

(***************************************************************************)
(* evaluate_on_dataset (evaluator.py): the timed inference loop.  Time is   *)
(* counted in whole seconds and passes only while a batch is loaded, the    *)
(* model runs or the evaluator processes.                                   *)
(***************************************************************************)
MaxTotal == 12            \* batches of the data loader
WarmupCap == 5            \* num_warmup = min(5, total - 1)
SlowComputeSeconds == 5   \* compute_seconds_per_iter > 5
SecondsPerMinute == 60    \* 60 * max_time_minutes

DataSeconds == {0, 90}    \* seconds one batch takes to load
ComputeSeconds == {1, 6}  \* seconds model(inputs) takes
EvalSeconds == {0, 1}     \* seconds evaluator.process takes
MaxTimeOptions == { [has |-> FALSE, minutes |-> 0], [has |-> TRUE, minutes |-> 1] }

Min(a, b) == IF a <= b THEN a ELSE b
Least(S) == CHOOSE x \in S : \A y \in S : x <= y
Largest(S) == CHOOSE x \in S : \A y \in S : y <= x
NotReturned == [kind |-> "running", value |-> ""]
NoStats == [idx |-> -1, iters_after_start |-> 0, seconds |-> 0, compute |-> 0]

DriverIdle ==
    /\ total = 0
    /\ max_time_minutes = [has |-> FALSE, minutes |-> 0]
    /\ pc = "idle"
    /\ idx = 0
    /\ num_warmup = 0
    /\ elapsed = 0
    /\ total_data_time = 0
    /\ total_compute_time = 0
    /\ total_eval_time = 0
    /\ stats = NoStats
    /\ calls = <<>>
    /\ result = NotReturned

\* lines 879-912: the loader has `total` batches, the evaluator is reset, the
\* clocks are started
DriverInit ==
    /\ total \in 0 .. MaxTotal
    /\ max_time_minutes \in MaxTimeOptions
    /\ num_warmup = Min(WarmupCap, total - 1)
    /\ pc = IF total > 0 THEN "load" ELSE "report"
    /\ idx = 0
    /\ elapsed = 0
    /\ total_data_time = 0
    /\ total_compute_time = 0
    /\ total_eval_time = 0
    /\ stats = NoStats
    /\ calls = <<>>
    /\ result = NotReturned

\* a loader step that never resets the clocks
LoadBatchKeeping ==
    /\ pc = "load"
    /\ \E d \in DataSeconds :
          /\ elapsed' = elapsed + d
          /\ total_data_time' = total_data_time + d
          /\ UNCHANGED <<total_compute_time, total_eval_time>>
    /\ calls' = Append(calls, <<"load", idx>>)
    /\ pc' = "compute"
    /\ UNCHANGED <<total, max_time_minutes, idx, num_warmup, stats, result>>

\* lines 913-919: the loader yields batch idx; the totals and the start time
\* are reset when idx == num_warmup
LoadBatch ==
    /\ pc = "load"
    /\ \E d \in DataSeconds :
          IF idx = num_warmup
          THEN /\ elapsed' = 0
               /\ total_data_time' = 0
               /\ total_compute_time' = 0
               /\ total_eval_time' = 0
          ELSE /\ elapsed' = elapsed + d
               /\ total_data_time' = total_data_time + d
               /\ UNCHANGED <<total_compute_time, total_eval_time>>
    /\ calls' = Append(calls, <<"load", idx>>)
    /\ pc' = "compute"
    /\ UNCHANGED <<total, max_time_minutes, idx, num_warmup, stats, result>>

\* lines 921-923: outputs = model(inputs)
RunModel ==
    /\ pc = "compute"
    /\ \E d \in ComputeSeconds :
          /\ elapsed' = elapsed + d
          /\ total_compute_time' = total_compute_time + d
    /\ calls' = Append(calls, <<"model", idx>>)
    /\ pc' = "eval"
    /\ UNCHANGED <<total, max_time_minutes, idx, num_warmup, total_data_time,
                   total_eval_time, stats, result>>

\* lines 925-927: evaluator.process(inputs, outputs)
RunProcess ==
    /\ pc = "eval"
    /\ \E d \in EvalSeconds :
          /\ elapsed' = elapsed + d
          /\ total_eval_time' = total_eval_time + d
    /\ calls' = Append(calls, <<"process", idx>>)
    /\ pc' = "stats"
    /\ UNCHANGED <<total, max_time_minutes, idx, num_warmup, total_data_time,
                   total_compute_time, stats, result>>

\* a count of the iterations before the current one
ItersBefore(i, warmup) == i - warmup * (IF i >= warmup THEN 1 ELSE 0)
\* line 929
ItersAfterStart(i, warmup) == i + 1 - warmup * (IF i >= warmup THEN 1 ELSE 0)
GateAlways(i, warmup, compute_time, iters) == TRUE
\* line 934: idx >= num_warmup * 2 or compute_seconds_per_iter > 5
Gate(i, warmup, compute_time, iters) ==
    i >= warmup * 2 \/ compute_time > SlowComputeSeconds * iters
\* lines 933-937: int(total_seconds_per_iter * (total - idx - 1))
Eta(seconds, iters, remaining) == (seconds * remaining) \div iters
\* lines 950-953
OverCeiling(eta) ==
    max_time_minutes.has /\ eta > SecondsPerMinute * max_time_minutes.minutes

\* leaving the loop without a return
Break ==
    /\ pc' = "report"
    /\ UNCHANGED <<idx, result>>
\* line 958: return None
ReturnNone ==
    /\ result' = [kind |-> "return", value |-> None]
    /\ pc' = "done"
    /\ UNCHANGED idx

\* lines 929-959: the statistics of the iteration, the ETA and the ceiling
TimingCheck ==
    /\ pc = "stats"
    /\ LET iters_after_start == ItersAfterStart(idx, num_warmup)
           gate == Gate(idx, num_warmup, total_compute_time, iters_after_start)
           eta == Eta(elapsed, iters_after_start, total - idx - 1)
       IN  /\ stats' = [idx |-> idx, iters_after_start |-> iters_after_start,
                        seconds |-> elapsed, compute |-> total_compute_time]
           /\ IF iters_after_start = 0
              THEN /\ result' = Raised("ZeroDivisionError")
                   /\ pc' = "done"
                   /\ UNCHANGED idx
              ELSE IF gate /\ OverCeiling(eta)
              THEN ReturnNone
              ELSE /\ idx' = idx + 1
                   /\ pc' = IF idx + 1 < total THEN "load" ELSE "report"
                   /\ UNCHANGED result
    /\ UNCHANGED <<total, max_time_minutes, num_warmup, elapsed, total_data_time,
                   total_compute_time, total_eval_time, calls>>

\* lines 960-973: the report and return evaluator.evaluate()
Report ==
    /\ pc = "report"
    /\ IF total - num_warmup = 0
       THEN /\ result' = Raised("ZeroDivisionError")
            /\ UNCHANGED calls
       ELSE /\ result' = [kind |-> "return", value |-> "evaluator.evaluate()"]
            /\ calls' = Append(calls, <<"evaluate", total>>)
    /\ pc' = "done"
    /\ UNCHANGED <<total, max_time_minutes, idx, num_warmup, elapsed,
                   total_data_time, total_compute_time, total_eval_time, stats>>

(***************************************************************************)
(* FlakeCOCOeval.summarize and FlakeCOCOEvaluator._derive_coco_results      *)
(* (evaluator.py).  Precisions, recalls and their means are counted in      *)
(* hundredths (100 is 1.0); a mean is kept as the fraction num / den.  The  *)
(* reported values, rounded to two decimals, are counted in hundredths too. *)
(***************************************************************************)
MaxCats == 2          \* categories K of the tensors
NumRecThrs == 3       \* recall thresholds R of the precision tensor
NumIouThrs == 10      \* np.linspace(0.5, 0.95, 10)
NumStats == 30        \* np.zeros((30,))
Sentinel == -100      \* the value -1 of an entry that cannot be computed

iouThrs == [t \in 0 .. NumIouThrs - 1 |-> 50 + 5 * t]
areaRngLbl == <<"all", "0-100", "100-200", "200-400", "400-inf">>
maxDets == <<1, 10, 100>>
Areas == 0 .. Len(areaRngLbl) - 1

Thr(x) == [has |-> TRUE, thr |-> x]
NoThr == [has |-> FALSE, thr |-> 0]

\* What accumulate() can leave for one category and area bucket: nothing but
\* the sentinel, values everywhere, or values at IoU 0.5 only.
Cells == {"empty", "full", "only50"}
OtherCells == {"empty", "full"}
\* precision[t, r, k, a, m] for the cell of (k, a)
Precision(cell, t, r, m) ==
    CASE cell = "empty" -> Sentinel
      [] cell = "full" ->
           IF m + 1 < Len(maxDets) THEN 0
           ELSE IF r = 0 THEN 100 ELSE IF t < 5 THEN 50 ELSE 0
      [] cell = "only50" ->
           IF t > 0 THEN Sentinel ELSE IF r = 0 THEN 100 ELSE 30
\* recall[t, k, a, m] for the cell of (k, a)
Recall(cell, t, m) ==
    CASE cell = "empty" -> Sentinel
      [] cell = "full" ->
           IF m + 1 < Len(maxDets) THEN 10 ELSE IF t < 5 THEN 80 ELSE 40
      [] cell = "only50" -> IF t > 0 THEN Sentinel ELSE 60

\* the tensors of `cats` categories: category 0 has a cell of its own in
\* every area bucket, the other categories share one cell for all buckets
CellTables(cats) ==
    { [k \in 0 .. cats - 1 |-> IF k = 0 THEN f ELSE [a \in Areas |-> g]] :
        f \in [Areas -> Cells], g \in OtherCells }

NoCocoEval == [none |-> TRUE, cats |-> 0, cell |-> <<>>, stats |-> <<>>]
ClassName(i) == "c" \o ToString(i)
ClassNameList(n) == [i \in 1 .. n |-> ClassName(i)]
NoClassNames == [has |-> FALSE, names |-> <<>>]

RECURSIVE SumFrom(_, _)
SumFrom(q, i) == IF i > Len(q) THEN 0 ELSE q[i] + SumFrom(q, i + 1)
SumSeq(q) == SumFrom(q, 1)
\* np.where(iouThr == p.iouThrs)[0], or every index for iouThr None
TIndices(iouThr) ==
    IF iouThr.has
    THEN Where([t \in 0 .. NumIouThrs - 1 |-> iouThr.thr = iouThrs[t]], NumIouThrs)
    ELSE [i \in 1 .. NumIouThrs |-> i - 1]
\* precision[ts, :, ks, a, m], flattened
PrecisionSlice(ce, ts, ks, a, m) ==
    [i \in 1 .. Len(ts) * NumRecThrs * Len(ks) |->
        LET t == ts[((i - 1) \div (NumRecThrs * Len(ks))) + 1]
            r == ((i - 1) \div Len(ks)) % NumRecThrs
            k == ks[((i - 1) % Len(ks)) + 1]
        IN  Precision(ce.cell[k][a], t, r, m)]
\* recall[ts, ks, a, m], flattened
RecallSlice(ce, ts, ks, a, m) ==
    [i \in 1 .. Len(ts) * Len(ks) |->
        LET t == ts[((i - 1) \div Len(ks)) + 1]
            k == ks[((i - 1) % Len(ks)) + 1]
        IN  Recall(ce.cell[k][a], t, m)]
\* a selection that keeps the sentinel
ValidAll(q) == q
\* s[s > -1]
Valid(q) == SelectSeq(q, LAMBDA v : v > Sentinel)
\* lines 755-758: -1 if no value is left, else the mean of the values left
MeanOrSentinel(valid) ==
    IF Len(valid) = 0
    THEN [num |-> Sentinel, den |-> 1]
    ELSE [num |-> SumSeq(valid), den |-> Len(valid)]

\* lines 727-760
_summarize(ce, ap, iouThr, areaRng, maxDetsArg) ==
    LET aind == Where([i \in Areas |-> areaRngLbl[i + 1] = areaRng], Len(areaRngLbl))
        mind == Where([i \in 0 .. Len(maxDets) - 1 |-> maxDets[i + 1] = maxDetsArg],
                      Len(maxDets))
        ks == [i \in 1 .. ce.cats |-> i - 1]
        q == IF Len(aind) = 0 \/ Len(mind) = 0 THEN <<>>
             ELSE IF ap = 1
             THEN PrecisionSlice(ce, TIndices(iouThr), ks, aind[1], mind[1])
             ELSE RecallSlice(ce, TIndices(iouThr), ks, aind[1], mind[1])
    IN  MeanOrSentinel(Valid(q))

Call(ap, iouThr, areaRng) == [ap |-> ap, iouThr |-> iouThr, areaRng |-> areaRng]
\* lines 766-798: the call that fills stats[i], i = 0 .. 29
SummarizeDetsCalls ==
    << Call(1, Thr(50), "all"), Call(1, Thr(50), "0-100"), Call(1, Thr(50), "100-200"),
       Call(1, Thr(50), "200-400"), Call(1, Thr(50), "400-inf"),
       Call(0, Thr(50), "all"), Call(0, Thr(50), "0-100"), Call(0, Thr(50), "100-200"),
       Call(0, Thr(50), "200-400"), Call(0, Thr(50), "400-inf"),
       Call(1, Thr(75), "all"), Call(1, Thr(75), "0-100"), Call(1, Thr(75), "100-200"),
       Call(1, Thr(75), "200-400"), Call(1, Thr(75), "400-inf"),
       Call(0, Thr(75), "all"), Call(0, Thr(75), "0-100"), Call(0, Thr(75), "100-200"),
       Call(0, Thr(75), "200-400"), Call(0, Thr(75), "400-inf"),
       Call(1, NoThr, "all"), Call(1, NoThr, "0-100"), Call(1, NoThr, "100-200"),
       Call(1, NoThr, "200-400"), Call(1, NoThr, "400-inf"),
       Call(0, NoThr, "all"), Call(0, NoThr, "0-100"), Call(0, NoThr, "100-200"),
       Call(0, NoThr, "200-400"), Call(0, NoThr, "400-inf") >>
\* lines 762-800
_summarizeDets(ce) ==
    [i \in 0 .. NumStats - 1 |->
        LET c == SummarizeDetsCalls[i + 1]
        IN  _summarize(ce, c.ap, c.iouThr, c.areaRng, maxDets[3])]

NaN == [nan |-> TRUE, x |-> 0]
Num(x) == [nan |-> FALSE, x |-> x]
\* n / d rounded to the nearest integer, ties to the even one
RoundHalfEven(n, d) ==
    LET q == n \div d
        r == n % d
    IN  IF 2 * r < d THEN q
        ELSE IF 2 * r > d THEN q + 1
        ELSE IF q % 2 = 0 THEN q ELSE q + 1
\* round(float(mean * 100), 2)
Round2(mean) == RoundHalfEven(mean.num * 100, mean.den)

\* lines 345-379
MetricNames(task) ==
    IF task = "bbox" THEN <<"AP", "AP50", "AP75", "APs", "APm", "APl">>
    ELSE << "AP50", "AP50,0-100", "AP50,100-200", "AP50,200-400", "AP50,400-inf",
            "AR50", "AR50,0-100", "AR50,100-200", "AR50,200-400", "AR50,400-inf",
            "AP75", "AP75,0-100", "AP75,100-200", "AP75,200-400", "AP75,400-inf",
            "AR75", "AR75,0-100", "AR75,100-200", "AR75,200-400", "AR75,400-inf",
            "AP", "AP,0-100", "AP,100-200", "AP,200-400", "AP,400-inf",
            "AR", "AR,0-100", "AR,100-200", "AR,200-400", "AR,400-inf" >>

\* a statistic turned into a number whatever its sign
StandardValueUnguarded(stat) == Num(Round2(stat))
\* lines 387-392
StandardValue(stat) == IF stat.num >= 0 THEN Num(Round2(stat)) ELSE NaN

Modes == <<"AP", "AR">>
\* a per-class loop that also visits IoU 0.75
PerClassThresholdsWith75 == <<Thr(50), Thr(75), NoThr>>
\* line 412: for iouThr in [0.5, None]
PerClassThresholds == <<Thr(50), NoThr>>

\* lines 427-432
ResultKey(mode, iouThr, area_idx, class_name) ==
    mode \o (IF iouThr.has THEN ToString(iouThr.thr) ELSE "")
         \o (IF area_idx > 0 THEN "," \o areaRngLbl[area_idx + 1] ELSE "")
         \o "_" \o class_name

\* lines 439-444: the mean of the values left, NaN if none is left
MeanOrNaN(valid) ==
    IF Len(valid) = 0 THEN NaN
    ELSE Num(Round2([num |-> SumSeq(valid), den |-> Len(valid)]))

\* lines 434-445
ClassValue(ce, mode, iouThr, area_idx, class_index) ==
    LET last == Len(maxDets) - 1
        sub_metric ==
            IF mode = "AP"
            THEN PrecisionSlice(ce, TIndices(iouThr), <<class_index>>, area_idx, last)
            ELSE RecallSlice(ce, TIndices(iouThr), <<class_index>>, area_idx, last)
    IN  MeanOrNaN(Valid(sub_metric))

\* lines 410-445: the updates of the per-class loops, in their order
PerClassUpdates(ce, names) ==
    LET nt == Len(PerClassThresholds)
        nc == Len(names)
        na == Len(areaRngLbl)
    IN  [i \in 1 .. Len(Modes) * na * nt * nc |->
            LET mode == Modes[((i - 1) \div (na * nt * nc)) + 1]
                area_idx == ((i - 1) \div (nt * nc)) % na
                iouThr == PerClassThresholds[(((i - 1) \div nc) % nt) + 1]
                class_index == (i - 1) % nc
            IN  [key |-> ResultKey(mode, iouThr, area_idx, names[class_index + 1]),
                 value |-> ClassValue(ce, mode, iouThr, area_idx, class_index)]]

\* lines 386-394: the entries of the standard metrics, in their order
StandardUpdates(ce, metrics) ==
    [i \in 1 .. Len(metrics) |->
        [key |-> metrics[i], value |-> StandardValue(ce.stats[i - 1])]]

\* results.update({key: value}) for the updates from the i-th on
RECURSIVE ApplyUpdates(_, _, _)
ApplyUpdates(d, updates, i) ==
    IF i > Len(updates) THEN d
    ELSE ApplyUpdates((updates[i].key :> updates[i].value) @@ d, updates, i + 1)

ReturnedTable(d) == [kind |-> "return", results |-> d]

\* lines 332-447
_derive_coco_results(ce, task, cn) ==
    IF task \notin {"bbox", "segm"} THEN Raised("KeyError")
    ELSE LET metrics == MetricNames(task)
         IN  IF ce.none
             THEN ReturnedTable([metric \in SeqRange(metrics) |-> NaN])
             ELSE LET results == ApplyUpdates(<<>>, StandardUpdates(ce, metrics), 1)
                  IN  IF ~cn.has \/ Len(cn.names) <= 1
                      THEN ReturnedTable(results)
                      ELSE IF Len(cn.names) > ce.cats
                      THEN Raised("IndexError")
                      ELSE ReturnedTable(
                               ApplyUpdates(results, PerClassUpdates(ce, cn.names), 1))

DeriveIdle ==
    /\ iou_type = "idle"
    /\ class_names = NoClassNames
    /\ coco_eval = NoCocoEval
    /\ derived = NotCalled

\* lines 268-284: the task, the class names of the metadata and either no
\* predictions at all or an accumulated FlakeCOCOeval
DeriveInit ==
    /\ iou_type \in SupportedTasks
    /\ class_names \in
         {NoClassNames} \cup
         { [has |-> TRUE, names |-> ClassNameList(n)] : n \in 0 .. MaxCats + 1 }
    /\ \/ coco_eval = NoCocoEval
       \/ /\ iou_type # "keypoints"
          /\ \E cats \in 1 .. MaxCats : \E cell \in CellTables(cats) :
                coco_eval = [none |-> FALSE, cats |-> cats, cell |-> cell,
                             stats |-> <<>>]
    /\ derived = NotCalled

\* lines 802-808: coco_eval.summarize()
Summarize ==
    /\ ~coco_eval.none
    /\ coco_eval.stats = <<>>
    /\ coco_eval' = [coco_eval EXCEPT !.stats = _summarizeDets(coco_eval)]
    /\ UNCHANGED <<iou_type, class_names, derived>>

\* lines 282-284: res = self._derive_coco_results(coco_eval, task, class_names)
DeriveCocoResults ==
    /\ derived = NotCalled
    /\ coco_eval.none \/ coco_eval.stats # <<>>
    /\ derived' = _derive_coco_results(coco_eval, iou_type, class_names)
    /\ UNCHANGED <<iou_type, class_names, coco_eval>>

(***************************************************************************)
(* Flake.__init__ (FlakeClass.py): the aspect ratio.  The quotient is kept  *)
(* as an exact fraction and the rounded ratio is counted in tenths.         *)
(***************************************************************************)
MaxSide == 9              \* side lengths in pixels
EpsInverse == 100000      \* 1 / 1e-5

\* a quotient with 0.1 in the place of 1e-5
QuotientCoarse(a, b) == [num |-> a * 10, den |-> b * 10 + 1]
\* max_sidelength / (min_sidelength + 1e-5)
Quotient(a, b) == [num |-> a * EpsInverse, den |-> b * EpsInverse + 1]
\* a fraction cut down to one decimal
FloorTenths(q) == (q.num * 10) \div q.den
\* round(x, 1)
RoundTenths(q) == RoundHalfEven(q.num * 10, q.den)

NoRatio == [set |-> FALSE, tenths |-> 0]
AspectIdle ==
    /\ max_sidelength = 0
    /\ min_sidelength = 0
    /\ aspect_ratio = NoRatio

\* the arguments of the constructor
AspectInit ==
    /\ max_sidelength \in 0 .. MaxSide
    /\ min_sidelength \in 0 .. MaxSide
    /\ aspect_ratio = NoRatio

\* line 43
SetAspectRatio ==
    /\ ~aspect_ratio.set
    /\ aspect_ratio' =
          [set |-> TRUE,
           tenths |-> RoundTenths(Quotient(max_sidelength, min_sidelength))]
    /\ UNCHANGED <<max_sidelength, min_sidelength>>

(***************************************************************************)
(* FlakeCOCOEvaluator.__init__ (evaluator.py).  The metadata of a dataset   *)
(* lives in the MetadataCatalog and outlives the evaluators built for it.   *)
(***************************************************************************)
Datasets == {"flakes", "flakes_test"}
NoJsonFile == [has |-> FALSE, file |-> ""]
JsonFile(f) == [has |-> TRUE, file |-> f]
\* the annotation file a dataset is registered with, if it is registered with one
OwnJson(dataset_name) == dataset_name \o ".json"
\* os.path.join(output_dir, f"{dataset_name}_coco_format.json")
CachePath(output_dir, dataset_name) ==
    output_dir \o "/" \o dataset_name \o "_coco_format.json"
\* "annotations" in self._coco_api.dataset: the json of the test set has none
HasAnnotations(file) == file # OwnJson("flakes_test")

\* the tasks argument: None, a tuple of task names or a CfgNode
TaskArgs == { [kind |-> "None", names |-> <<>>],
              [kind |-> "tuple", names |-> <<"segm">>],
              [kind |-> "CfgNode", names |-> <<>>] }
\* max_dets_per_image: None or an integer
MaxDetsArgs == { [has |-> FALSE, n |-> 0], [has |-> TRUE, n |-> 300] }
CtorArgs ==
    [dataset_name : Datasets, tasks : TaskArgs, distributed : BOOLEAN,
     output_dir : OutputDirs, max_dets_per_image : MaxDetsArgs]

NotBuilt ==
    [kind |-> "not_called", error |-> "", log |-> <<>>, args |-> <<>>,
     had_json_file |-> FALSE, self |-> <<>>]

\* lines 129-142 with the conversion started before output_dir is looked at
json_file_convert_first(meta, args) ==
    IF meta.has THEN [error |-> "", log |-> <<>>, meta |-> meta]
    ELSE LET dir == IF args.output_dir = None THEN "." ELSE args.output_dir
             cache_path == CachePath(dir, args.dataset_name)
         IN  IF args.output_dir = None
             THEN [error |-> "ValueError",
                   log |-> <<"set_json_file:" \o cache_path, "convert:" \o cache_path>>,
                   meta |-> JsonFile(cache_path)]
             ELSE [error |-> "",
                   log |-> <<"set_json_file:" \o cache_path, "convert:" \o cache_path>>,
                   meta |-> JsonFile(cache_path)]

\* lines 129-142: the json_file of the metadata, converted on first use
json_file(meta, args) ==
    IF meta.has THEN [error |-> "", log |-> <<>>, meta |-> meta]
    ELSE IF args.output_dir = None
    THEN [error |-> "ValueError", log |-> <<>>, meta |-> meta]
    ELSE LET cache_path == CachePath(args.output_dir, args.dataset_name)
         IN  [error |-> "",
              log |-> <<"set_json_file:" \o cache_path, "convert:" \o cache_path>>,
              meta |-> JsonFile(cache_path)]

\* lines 100-152: the outcome of the call and the metadata it leaves
__init__(meta, args) ==
    LET jf == json_file(meta, args)
        max_dets == <<1, 10, IF args.max_dets_per_image.has
                             THEN args.max_dets_per_image.n ELSE 100>>
        _tasks == IF args.tasks.kind = "tuple" THEN args.tasks.names ELSE <<>>
    IN  IF jf.error # ""
        THEN [built |-> [kind |-> "raise", error |-> jf.error, log |-> jf.log,
                         args |-> args, had_json_file |-> meta.has, self |-> <<>>],
              meta |-> jf.meta]
        ELSE [built |-> [kind |-> "return", error |-> "",
                         log |-> jf.log \o <<"load:" \o jf.meta.file>>,
                         args |-> args, had_json_file |-> meta.has,
                         self |-> [_distributed |-> args.distributed,
                                   _output_dir |-> args.output_dir,
                                   _max_dets_per_image |-> max_dets,
                                   _tasks |-> _tasks,
                                   _do_evaluation |-> HasAnnotations(jf.meta.file)]],
              meta |-> jf.meta]

ConstructIdle ==
    /\ metadata = [d \in {} |-> NoJsonFile]
    /\ built = NotBuilt

\* the catalog before the first evaluator is built
ConstructInit ==
    /\ metadata \in [Datasets -> {NoJsonFile} \cup { JsonFile(OwnJson(d)) : d \in Datasets }]
    /\ \A d \in Datasets : metadata[d].has => metadata[d].file = OwnJson(d)
    /\ built = NotBuilt

\* FlakeCOCOEvaluator(dataset_name, tasks, distributed, output_dir, ...)
Construct ==
    \E args \in CtorArgs :
        LET c == __init__(metadata[args.dataset_name], args)
        IN  /\ built' = c.built
            /\ metadata' = [metadata EXCEPT ![args.dataset_name] = c.meta]

(***************************************************************************)
(* FlakeCOCOeval.__init__ and FlakeParams (evaluator.py).  An area is kept  *)
(* as the pair [hi, lo] that stands for hi * 10^5 + lo, so that 1e10 can be *)
(* written down.                                                            *)
(***************************************************************************)
MaxImgIds == 3            \* image ids of the ground truth
MaxCatIds == 2            \* category ids of the ground truth
ConversionNum == 6250000  \* 1 / 0.3844**2 = 10^8 / 3844^2 = 6250000 / 923521
ConversionDen == 923521

Wide(hi, lo) == [hi |-> hi, lo |-> lo]
Px(n) == Wide(n \div 100000, n % 100000)
\* 1e10
UpperLimit == Wide(100000, 0)
LessEq(a, b) == a.hi < b.hi \/ (a.hi = b.hi /\ a.lo <= b.lo)

\* nm2 * conversion_factor rounded up
ScaledUp(nm2) ==
    nm2 * (ConversionNum \div ConversionDen)
    + (nm2 * (ConversionNum % ConversionDen) + ConversionDen - 1) \div ConversionDen
\* int(nm2 * conversion_factor), the product split into quotient and rest of
\* the factor
Scaled(nm2) ==
    nm2 * (ConversionNum \div ConversionDen)
    + (nm2 * (ConversionNum % ConversionDen)) \div ConversionDen

\* lines 838-857
areaRng ==
    << <<Px(0), UpperLimit>>,
       <<Px(0), Px(Scaled(100))>>,
       <<Px(Scaled(100)), Px(Scaled(200))>>,
       <<Px(Scaled(200)), Px(Scaled(400))>>,
       <<Px(Scaled(400)), UpperLimit>> >>

\* lines 819-859: setDetParams
setDetParams ==
    [kind |-> "params", imgIds |-> <<>>, catIds |-> <<>>, maxDets |-> maxDets,
     areaRng |-> areaRng, areaRngLbl |-> areaRngLbl, useCats |-> 1]

\* lines 861-870: FlakeParams(iouType); the class has no setKpParams
FlakeParams(t) ==
    IF t \in {"segm", "bbox"} THEN [setDetParams EXCEPT !.kind = "params"]
    ELSE IF t = "keypoints" THEN Raised("AttributeError")
    ELSE Raised("Exception")

NoGt == [none |-> TRUE, imgIds |-> <<>>, catIds |-> <<>>]
\* the lists of distinct ids out of 1 .. n, in any order
IdLists(n) ==
    { s \in UNION { [1 .. k -> 1 .. n] : k \in 0 .. n } :
        \A i, j \in DOMAIN s : s[i] = s[j] => i = j }
IouTypes == {"segm", "bbox", "keypoints", "", "depth"}

\* lines 696-719: FlakeCOCOeval(cocoGt, cocoDt, iouType).params
FlakeCOCOeval(gt, t) ==
    LET p == FlakeParams(t)
    IN  IF p.kind # "params" \/ gt.none THEN p
        ELSE [p EXCEPT !.imgIds = SortSeq(gt.imgIds, LAMBDA a, b : a < b),
                       !.catIds = SortSeq(gt.catIds, LAMBDA a, b : a < b)]

ParamsIdle ==
    /\ iouType = "idle"
    /\ cocoGt = NoGt
    /\ params = NotCalled

ParamsInit ==
    /\ iouType \in IouTypes
    /\ cocoGt \in {NoGt} \cup
                  { [none |-> FALSE, imgIds |-> i, catIds |-> c] :
                      i \in IdLists(MaxImgIds), c \in IdLists(MaxCatIds) }
    /\ params = NotCalled

\* coco_eval = FlakeCOCOeval(coco_gt, coco_dt, iou_type)
NewCocoEval ==
    /\ params = NotCalled
    /\ params' = FlakeCOCOeval(cocoGt, iouType)
    /\ UNCHANGED <<iouType, cocoGt>>

(***************************************************************************)
(* _evaluate_box_proposals (evaluator.py): the greedy matching of the       *)
(* proposals of one image to its ground-truth boxes.  An IoU is counted in  *)
(* hundredths.                                                              *)
(***************************************************************************)
MaxPred == 2              \* proposals of the image, after the limit
MaxGt == 2                \* ground-truth boxes of the image in the area range
Marked == -100            \* the -1 written over a used row or column
IoUs == {0, 30, 80}       \* what pairwise_iou can give

OverlapMatrices(p, g) == [(1 .. p) \X (1 .. g) -> IoUs]
\* a loop that goes on while a proposal or a box is left
RoundsWhileAnyLeft(p, g) == IF p >= g THEN p ELSE g
\* line 584: range(min(len(predictions), len(gt_boxes)))
Rounds(p, g) == Min(p, g)
\* overlaps.max(dim=0) at column k: the value, and the rows that hold it
\* (which of them argmax names is left open by torch)
ColumnMax(m, p, k) == Largest({ m[<<i, k>>] : i \in 1 .. p })
ColumnArgmax(m, p, k) == { i \in 1 .. p : m[<<i, k>>] = ColumnMax(m, p, k) }

MatchIdle ==
    /\ n_pred = 0
    /\ n_gt = 0
    /\ overlaps = <<>>
    /\ round_j = 0
    /\ _gt_overlaps = <<>>
    /\ box_ind = 0
    /\ gt_ind = 0
    /\ match_pc = "idle"

\* lines 560-582: the boxes of one image; the overlaps and the zeros of
\* _gt_overlaps exist only when there is a proposal and a box
MatchInit ==
    /\ n_pred \in 0 .. MaxPred
    /\ n_gt \in 0 .. MaxGt
    /\ IF n_pred = 0 \/ n_gt = 0
       THEN overlaps = <<>> /\ _gt_overlaps = <<>>
       ELSE /\ overlaps \in OverlapMatrices(n_pred, n_gt)
            /\ _gt_overlaps = [k \in 1 .. n_gt |-> 0]
    /\ round_j = 0
    /\ box_ind = 0
    /\ gt_ind = 0
    /\ match_pc = "loop"

\* lines 568-569 and 576-577: continue
SkipImage ==
    /\ match_pc = "loop"
    /\ n_pred = 0 \/ n_gt = 0
    /\ match_pc' = "skipped"
    /\ UNCHANGED <<n_pred, n_gt, overlaps, round_j, _gt_overlaps, box_ind, gt_ind>>

\* lines 584-600: one round of the loop
MatchRound ==
    /\ match_pc = "loop"
    /\ n_pred > 0 /\ n_gt > 0
    /\ round_j < Rounds(n_pred, n_gt)
    /\ LET max_overlaps == [k \in 1 .. n_gt |-> ColumnMax(overlaps, n_pred, k)]
           gt_ovr == Largest({ max_overlaps[k] : k \in 1 .. n_gt })
       IN  \E g \in { k \in 1 .. n_gt : max_overlaps[k] = gt_ovr } :
           \E b \in ColumnArgmax(overlaps, n_pred, g) :
              /\ gt_ind' = g
              /\ box_ind' = b
              /\ IF ~(gt_ovr >= 0)
                 THEN /\ match_pc' = "AssertionError"
                      /\ UNCHANGED <<overlaps, round_j, _gt_overlaps>>
                 ELSE /\ _gt_overlaps' =
                            [_gt_overlaps EXCEPT ![round_j + 1] = overlaps[<<b, g>>]]
                      /\ IF overlaps[<<b, g>>] # gt_ovr
                         THEN /\ match_pc' = "AssertionError"
                              /\ UNCHANGED <<overlaps, round_j>>
                         ELSE /\ overlaps' =
                                    [c \in DOMAIN overlaps |->
                                        IF c[1] = b \/ c[2] = g THEN Marked
                                        ELSE overlaps[c]]
                              /\ round_j' = round_j + 1
                              /\ UNCHANGED match_pc
    /\ UNCHANGED <<n_pred, n_gt>>

\* lines 602-603: gt_overlaps.append(_gt_overlaps)
AppendOverlaps ==
    /\ match_pc = "loop"
    /\ n_pred > 0 /\ n_gt > 0
    /\ round_j >= Rounds(n_pred, n_gt)
    /\ match_pc' = "appended"
    /\ UNCHANGED <<n_pred, n_gt, overlaps, round_j, _gt_overlaps, box_ind, gt_ind>>

InitMatch ==
    MatchInit /\ FlakeIdle /\ EvaluatorIdle /\ DriverIdle /\ DeriveIdle
    /\ ConstructIdle /\ AspectIdle /\ ParamsIdle
NextMatch ==
    \/ SkipImage /\ UNCHANGED <<flakeVars, evalVars, driverVars, deriveVars, constructVars, aspectVars, paramsVars>>
    \/ MatchRound /\ UNCHANGED <<flakeVars, evalVars, driverVars, deriveVars, constructVars, aspectVars, paramsVars>>
    \/ AppendOverlaps /\ UNCHANGED <<flakeVars, evalVars, driverVars, deriveVars, constructVars, aspectVars, paramsVars>>
SpecMatch == InitMatch /\ [][NextMatch]_vars

InitParams ==
    ParamsInit /\ FlakeIdle /\ EvaluatorIdle /\ DriverIdle /\ DeriveIdle
    /\ ConstructIdle /\ AspectIdle /\ MatchIdle
NextParams ==
    NewCocoEval
    /\ UNCHANGED <<flakeVars, evalVars, driverVars, deriveVars, constructVars, aspectVars, matchVars>>
SpecParams == InitParams /\ [][NextParams]_vars

InitAspect ==
    AspectInit /\ FlakeIdle /\ EvaluatorIdle /\ DriverIdle /\ DeriveIdle
    /\ ConstructIdle /\ ParamsIdle /\ MatchIdle
NextAspect ==
    SetAspectRatio
    /\ UNCHANGED <<flakeVars, evalVars, driverVars, deriveVars, constructVars, paramsVars, matchVars>>
SpecAspect == InitAspect /\ [][NextAspect]_vars

InitConstruct ==
    ConstructInit /\ FlakeIdle /\ EvaluatorIdle /\ DriverIdle /\ DeriveIdle /\ AspectIdle /\ ParamsIdle /\ MatchIdle
NextConstruct ==
    Construct /\ UNCHANGED <<flakeVars, evalVars, driverVars, deriveVars, aspectVars, paramsVars, matchVars>>
SpecConstruct == InitConstruct /\ [][NextConstruct]_vars

InitDerive == DeriveInit /\ FlakeIdle /\ EvaluatorIdle /\ DriverIdle /\ ConstructIdle /\ AspectIdle /\ ParamsIdle /\ MatchIdle
NextDerive ==
    \/ Summarize /\ UNCHANGED <<flakeVars, evalVars, driverVars, constructVars, aspectVars, paramsVars, matchVars>>
    \/ DeriveCocoResults /\ UNCHANGED <<flakeVars, evalVars, driverVars, constructVars, aspectVars, paramsVars, matchVars>>
SpecDerive == InitDerive /\ [][NextDerive]_vars

InitDriver == DriverInit /\ FlakeIdle /\ EvaluatorIdle /\ DeriveIdle /\ ConstructIdle /\ AspectIdle /\ ParamsIdle /\ MatchIdle
NextDriver ==
    \/ LoadBatch /\ UNCHANGED <<flakeVars, evalVars, deriveVars, constructVars, aspectVars, paramsVars, matchVars>>
    \/ RunModel /\ UNCHANGED <<flakeVars, evalVars, deriveVars, constructVars, aspectVars, paramsVars, matchVars>>
    \/ RunProcess /\ UNCHANGED <<flakeVars, evalVars, deriveVars, constructVars, aspectVars, paramsVars, matchVars>>
    \/ TimingCheck /\ UNCHANGED <<flakeVars, evalVars, deriveVars, constructVars, aspectVars, paramsVars, matchVars>>
    \/ Report /\ UNCHANGED <<flakeVars, evalVars, deriveVars, constructVars, aspectVars, paramsVars, matchVars>>
SpecDriver == InitDriver /\ [][NextDriver]_vars

InitEvaluator == EvaluatorInit /\ FlakeIdle /\ DriverIdle /\ DeriveIdle /\ ConstructIdle /\ AspectIdle /\ ParamsIdle /\ MatchIdle
NextEvaluator ==
    \/ \E r \in Ranks : Reset(r) 
          /\ UNCHANGED <<flakeVars, driverVars, deriveVars, constructVars, aspectVars, paramsVars, matchVars>>
    \/ \E r \in Ranks : Process(r) 
          /\ UNCHANGED <<flakeVars, driverVars, deriveVars, constructVars, aspectVars, paramsVars, matchVars>>
    \/ \E r \in Ranks : EvaluateLocal(r) 
          /\ UNCHANGED <<flakeVars, driverVars, deriveVars, constructVars, aspectVars, paramsVars, matchVars>>
    \/ EvaluateDistributed 
          /\ UNCHANGED <<flakeVars, driverVars, deriveVars, constructVars, aspectVars, paramsVars, matchVars>>
SpecEvaluator == InitEvaluator /\ [][NextEvaluator]_vars

InitFlake == FlakeInit /\ EvaluatorIdle /\ DriverIdle /\ DeriveIdle /\ ConstructIdle /\ AspectIdle /\ ParamsIdle /\ MatchIdle
NextFlake == ToDict /\ UNCHANGED <<evalVars, driverVars, deriveVars, constructVars, aspectVars, paramsVars, matchVars>>
SpecFlake == InitFlake /\ [][NextFlake]_vars

TruePixels(m) == { p \in DOMAIN m.at : m.at[p] }
BBoxReturned == to_dict_out.kind = "dict" /\ to_dict_out.has_bbox

\* C1: for every mask with at least one true pixel, the bbox [x, y, w, h] that
\* to_dict(return_bbox=True) returns is the minimal enclosing rectangle of the
\* true pixels: x and y are the smallest true column and row, the w columns
\* from x and the h rows from y cover every true pixel, and the last covered
\* column and row hold a true pixel.
C1_BBoxIsMinimalEnclosingRectangle ==
    (BBoxReturned /\ TruePixels(mask) # {}) =>
        LET x == to_dict_out.bbox[1]
            y == to_dict_out.bbox[2]
            w == to_dict_out.bbox[3]
            h == to_dict_out.bbox[4]
            T == TruePixels(mask)
        IN  /\ \A p \in T : x <= p[2] /\ y <= p[1]
            /\ \E p \in T : p[2] = x
            /\ \E p \in T : p[1] = y
            /\ \A p \in T : p[2] \in x .. x + w - 1 /\ p[1] \in y .. y + h - 1
            /\ \E p \in T : p[2] = x + w - 1
            /\ \E p \in T : p[1] = y + h - 1

\* C2: to_dict(return_bbox=True) on a mask without a true pixel ends with an
\* error and returns no dictionary, whatever the shape of the mask.
C2_EmptyMaskFails ==
    (to_dict_out.kind # "not_called" /\ to_dict_out.call /\ TruePixels(mask) = {})
        => to_dict_out.kind = "raise"

C2_Witness ==
    /\ to_dict_out.kind = "raise"
    /\ to_dict_out.call
    /\ mask.rows = MaxRows /\ mask.cols = MaxCols
    /\ TruePixels(mask) = {}

(***************************************************************************)
(* Claims about FlakeCOCOEvaluator.  ret is the outcome of the latest step, *)
(* so a state with ret[r].op = "evaluate" is the state evaluate() left.     *)
(***************************************************************************)
Evaluated(r) == ret[r].op = "evaluate"
ReturnedEmpty(r) ==
    /\ ret[r].kind = "return"
    /\ DOMAIN ret[r].value = {}
    /\ Written(ret[r].log) = {}
ImageIds(list) == [k \in 1 .. Len(list) |-> list[k].image_id]

\* C3 as stated: after reset(), whenever the accumulator of the evaluator is
\* empty when evaluate() is called, evaluate() returns an empty mapping, does
\* not raise and writes no file, for every configuration.
C3_EmptyAccumulatorReturnsEmpty ==
    \A r \in Ranks :
        (/\ Evaluated(r)
         /\ \A q \in Ranks : _predictions[q].set
         /\ _predictions[r].list = <<>>) => ReturnedEmpty(r)

\* C3 amended: after reset(), whenever the list evaluate() looks at is empty
\* (the local accumulator with distributed=False, the accumulators of all
\* processes with distributed=True), evaluate() returns an empty mapping,
\* does not raise and writes no file, for every configuration.
C3_EmptyGatherReturnsEmpty ==
    \A r \in Ranks :
        (/\ Evaluated(r)
         /\ IF cfg._distributed
            THEN \A q \in Ranks : _predictions[q] = [set |-> TRUE, list |-> <<>>]
            ELSE _predictions[r] = [set |-> TRUE, list |-> <<>>])
        => ReturnedEmpty(r)

C3_Witness ==
    /\ cfg._distributed /\ world > 1
    /\ cfg._output_dir # None /\ cfg._do_evaluation /\ cfg._tasks # <<>>
    /\ \A q \in Ranks : _predictions[q] = [set |-> TRUE, list |-> <<>>]
    /\ \A q \in Ranks : Evaluated(q) /\ ReturnedEmpty(q)
    /\ ret[0].log = <<"warning:no_predictions">>
    /\ next_image > 0

\* C8: before matching, every instance record whose predicted contiguous
\* class id c lies in 0 .. num_classes - 1 has its category_id set to the one
\* dataset id d with thing_dataset_id_to_contiguous_id[d] = c, and a record
\* with a class id outside that range makes the evaluation fail.
C8_CategoryIdsUnmapped ==
    \A r \in Ranks :
        (Evaluated(r) /\ cfg.id_map.has /\ cfg._do_evaluation
         /\ ret[r].consumed # <<>> /\ ret[r].consumed[1].has_instances) =>
            LET num_classes == Cardinality(DOMAIN cfg.id_map.map)
                results == ret[r].coco_results
                InRange(k) == results[k].pred_class \in 0 .. num_classes - 1
            IN  IF \A k \in 1 .. Len(results) : InRange(k)
                THEN \A k \in 1 .. Len(results) :
                        /\ results[k].category_id \in DOMAIN cfg.id_map.map
                        /\ cfg.id_map.map[results[k].category_id] = results[k].pred_class
                ELSE ret[r].kind = "raise"

\* C9: without annotations, evaluate() over a non-empty accumulator invokes
\* neither the matching engine nor the box-proposal recall routine, adds no
\* task key to the results, and the mapping it returns is empty, for instance
\* and for proposal predictions.
MetricSteps(log) ==
    { i \in 1 .. Len(log) :
        \/ log[i] = "box_proposal_recall"
        \/ \E t \in SeqRange(TaskOrder) :
              log[i] = "coco_eval:" \o t \/ log[i] = "derive:" \o t }
C9_NoAnnotationsNoMetrics ==
    \A r \in Ranks :
        (Evaluated(r) /\ ~cfg._do_evaluation /\ ret[r].consumed # <<>>) =>
            /\ MetricSteps(ret[r].log) = {}
            /\ DOMAIN ret[r].results = {}
            /\ ret[r].kind = "return" => DOMAIN ret[r].value = {}

C9_Witness ==
    /\ ~cfg._do_evaluation /\ cfg.model = "both"
    /\ Evaluated(0) /\ ret[0].kind = "return"
    /\ Len(ret[0].consumed) = MaxImages
    /\ ret[0].coco_results # <<>>
    /\ DOMAIN ret[0].value = {}
    /\ "write:box_proposals.pkl" \in SeqRange(ret[0].log)

\* C10 as stated: once evaluate() has returned, the accumulator no longer
\* holds the predictions it consumed.
C10_ConsumedThenDiscarded ==
    \A r \in Ranks :
        (Evaluated(r) /\ ret[r].kind = "return") =>
            \A q \in Ranks :
                SeqRange(ImageIds(_predictions[q].list))
                    \cap SeqRange(ImageIds(ret[r].consumed)) = {}

\* C10 amended: reset() leaves the accumulator empty, process() only appends,
\* and evaluate() removes nothing: the accumulator holds the same images in
\* the same order after evaluate() as before, until the next reset(), so a
\* later evaluate() consumes them again.
IsPrefix(a, b) == Len(a) <= Len(b) /\ SubSeq(b, 1, Len(a)) = a
C10_ResetAppendKeep ==
    [][\A r \in Ranks :
          /\ ret'[r].op = "reset" => _predictions'[r] = [set |-> TRUE, list |-> <<>>]
          /\ ret'[r].op = "process" =>
                IsPrefix(_predictions[r].list, _predictions'[r].list)
          /\ ret'[r].op = "evaluate" =>
                /\ ImageIds(_predictions'[r].list) = ImageIds(_predictions[r].list)
                /\ (ret'[r].kind = "return" /\ (r = 0 \/ ~cfg._distributed)) =>
                      ImageIds(ret'[r].consumed) =
                          ImageIds(IF cfg._distributed
                                   THEN Chain(_predictions, 0, world - 1)
                                   ELSE _predictions[r].list)
          /\ ret'[r].op = "none" => _predictions'[r] = _predictions[r]]_vars

\* an evaluate() that consumed records an earlier evaluate() had translated
C10_Witness ==
    /\ Evaluated(0) /\ ret[0].kind = "return"
    /\ ret[0].consumed # <<>>
    /\ ImageIds(_predictions[0].list) = ImageIds(ret[0].consumed)
    /\ \E k \in 1 .. Len(ret[0].consumed) :
          /\ ret[0].consumed[k].instances # <<>>
          /\ ret[0].consumed[k].instances[1].category_id
                # ret[0].consumed[k].instances[1].pred_class

(***************************************************************************)
(* Claims about evaluate_on_dataset, checked under SpecDriver.              *)
(***************************************************************************)
Checked == stats.idx >= 0 /\ stats.iters_after_start > 0
\* the projected remaining time of the latest iteration, in whole seconds
Projected == (stats.seconds * (total - stats.idx - 1)) \div stats.iters_after_start
AbortedAt(i) ==
    /\ pc = "done"
    /\ result = [kind |-> "return", value |-> None]
    /\ idx = i
CalledEvaluate == \E k \in 1 .. Len(calls) : calls[k][1] = "evaluate"

\* C4 as stated: with max_time_minutes set, in every iteration idx whose
\* projected remaining time exceeds 60 * max_time_minutes seconds the loop
\* aborts at idx and the function returns no result.
C4_CheckedEveryIteration ==
    (Checked /\ max_time_minutes.has
       /\ Projected > SecondsPerMinute * max_time_minutes.minutes)
    => AbortedAt(stats.idx)

\* C4 amended: the comparison is made exactly in the iterations with
\* idx >= 2 * num_warmup or more than 5 compute seconds per iteration; there
\* the loop aborts at idx, before the last batch, and returns None iff the ETA
\* in whole seconds exceeds 60 * max_time_minutes; in every other iteration
\* the loop goes on whatever the projection is.
C4_CheckedWhenReported ==
    (Checked /\ max_time_minutes.has)
    => LET compared == \/ stats.idx >= 2 * num_warmup
                       \/ stats.compute > 5 * stats.iters_after_start
           over == Projected > 60 * max_time_minutes.minutes
       IN  /\ (compared /\ over)
              => (AbortedAt(stats.idx) /\ stats.idx < total - 1 /\ ~CalledEvaluate)
           /\ ~(compared /\ over)
              => (idx = stats.idx + 1 /\ result.value # None)

\* an abort decided in an iteration past twice the warm-up
C4_Witness ==
    /\ max_time_minutes.has
    /\ num_warmup > 0
    /\ stats.idx >= 2 * num_warmup
    /\ AbortedAt(stats.idx)

CanonicalCall(k) ==
    LET i == (k - 1) \div 3
        j == (k - 1) % 3
    IN  IF i < total
        THEN <<(<<"load", "model", "process">>)[j + 1], i>>
        ELSE <<"evaluate", total>>

\* C5: the calls are load, model, process for batch 0, 1, 2, ... in this
\* order, followed by at most one evaluate() once all `total` batches are
\* processed; after an abort on the ceiling the function has returned None,
\* evaluate() was not called and the last call is process on the aborting
\* batch; None is returned in no other case.
C5_SequentialThenEvaluateOnce ==
    /\ Len(calls) <= 3 * total + 1
    /\ \A k \in 1 .. Len(calls) : calls[k] = CanonicalCall(k)
    /\ (result.kind = "return" /\ result.value = None)
       => /\ pc = "done"
          /\ ~CalledEvaluate
          /\ Len(calls) = 3 * (idx + 1)
          /\ calls[Len(calls)] = <<"process", idx>>
          /\ stats.idx = idx
          /\ max_time_minutes.has
    /\ (result.kind = "return" /\ result.value # None)
       => /\ CalledEvaluate
          /\ Len(calls) = 3 * total + 1
    /\ CalledEvaluate => result.kind = "return" /\ result.value # None

\* an abort that leaves at least two batches untouched
C5_Witness ==
    /\ result = [kind |-> "return", value |-> None]
    /\ idx + 2 < total
    /\ Len(calls) = 3 * (idx + 1)

(***************************************************************************)
(* Claims about the metrics table, checked under SpecDerive.                *)
(***************************************************************************)
Table == derived.results
NamesGiven == IF class_names.has THEN Len(class_names.names) ELSE 0
\* the IoU indices, mode and area bucket of the slice stats[i] is computed on
StatTs(i) ==
    IF i < 10 THEN { t \in DOMAIN iouThrs : iouThrs[t] = 50 }
    ELSE IF i < 20 THEN { t \in DOMAIN iouThrs : iouThrs[t] = 75 }
    ELSE DOMAIN iouThrs
StatMode(i) == IF i % 10 < 5 THEN "AP" ELSE "AR"
StatArea(i) == i % 5
ThrTs(iouThr) ==
    IF iouThr.has THEN { t \in DOMAIN iouThrs : iouThrs[t] = iouThr.thr }
    ELSE DOMAIN iouThrs
\* the slice of the tensor at the largest detection limit holds the sentinel only
NoValidValue(mode, ts, ks, a) ==
    \A t \in ts, k \in ks :
        IF mode = "AP"
        THEN \A r \in 0 .. NumRecThrs - 1 :
                Precision(coco_eval.cell[k][a], t, r, Len(maxDets) - 1) = Sentinel
        ELSE Recall(coco_eval.cell[k][a], t, Len(maxDets) - 1) = Sentinel

\* C6: in a returned table no entry is negative; every standard entry whose
\* statistic is computed on a slice with no valid value, every per-class entry
\* whose slice has no valid value, and every entry when the model produced no
\* detection, is NaN.
C6_EmptySliceIsNaN ==
    derived.kind = "return"
    => /\ \A key \in DOMAIN Table : Table[key].nan \/ Table[key].x >= 0
       /\ coco_eval.none => \A key \in DOMAIN Table : Table[key].nan
       /\ ~coco_eval.none =>
            /\ \A i \in 0 .. Len(MetricNames(iou_type)) - 1 :
                  NoValidValue(StatMode(i), StatTs(i), 0 .. coco_eval.cats - 1,
                               StatArea(i))
                  => Table[MetricNames(iou_type)[i + 1]].nan
            /\ \A mode \in {"AP", "AR"}, a \in Areas, c \in 1 .. NamesGiven :
               \A iouThr \in {Thr(50), Thr(75), NoThr} :
                  LET key == ResultKey(mode, iouThr, a, class_names.names[c])
                  IN  (key \in DOMAIN Table
                         /\ NoValidValue(mode, ThrTs(iouThr), {c - 1}, a))
                      => Table[key].nan

\* a table with NaN and numbers side by side, standard and per class
C6_Witness ==
    /\ derived.kind = "return"
    /\ iou_type = "segm"
    /\ ~coco_eval.none
    /\ NamesGiven = 2
    /\ Table["AP75"].nan
    /\ ~Table["AP50"].nan
    /\ Table["AR,0-100_c2"].nan
    /\ ~Table["AR50,0-100_c1"].nan

AllSettings == {Thr(50), Thr(75), NoThr}
StandardKey(mode, iouThr, a) ==
    mode \o (IF iouThr.has THEN ToString(iouThr.thr) ELSE "")
         \o (IF a > 0 THEN "," \o areaRngLbl[a + 1] ELSE "")
StandardCombinations ==
    { StandardKey(mode, iouThr, a) : mode \in {"AP", "AR"}, iouThr \in AllSettings,
                                     a \in Areas }

\* C7 as stated: when class names are supplied the table holds, for every
\* class name, mode, IoU setting in {0.50, 0.75, band} and area bucket, the
\* entry keyed <mode><50|75|>[,<bucket>]_<class>, and the 30 combinations
\* without class suffix.
C7_PerClassKeysForAllSettings ==
    (derived.kind = "return" /\ NamesGiven >= 1)
    => /\ StandardCombinations \subseteq DOMAIN Table
       /\ \A c \in 1 .. NamesGiven, mode \in {"AP", "AR"}, a \in Areas :
          \A iouThr \in AllSettings :
             ResultKey(mode, iouThr, a, class_names.names[c]) \in DOMAIN Table

\* C7 amended: the keys of a returned table are the standard names of the
\* task (for segm the 30 combinations, for bbox AP, AP50, AP75, APs, APm, APl)
\* and, only when at least two class names are given and the model produced
\* detections, for every class name, mode, IoU setting in {0.50, band} and
\* area bucket the key <mode><50|>[,<bucket>]_<class>: 20 per class, none for
\* IoU 0.75.
C7_PerClassKeysAt50AndBand ==
    derived.kind = "return"
    => LET perClass == NamesGiven >= 2 /\ ~coco_eval.none
           classKeys ==
               { ResultKey(mode, iouThr, a, class_names.names[c]) :
                   mode \in {"AP", "AR"}, iouThr \in {Thr(50), NoThr},
                   a \in Areas, c \in 1 .. NamesGiven }
           standard ==
               IF iou_type = "segm" THEN StandardCombinations
               ELSE {"AP", "AP50", "AP75", "APs", "APm", "APl"}
       IN  /\ DOMAIN Table = standard \cup (IF perClass THEN classKeys ELSE {})
           /\ Cardinality(DOMAIN Table) =
                 (IF iou_type = "segm" THEN 30 ELSE 6)
                 + (IF perClass THEN 20 * NamesGiven ELSE 0)

\* a segm table with the entries of two classes
C7_Witness ==
    /\ derived.kind = "return"
    /\ iou_type = "segm"
    /\ NamesGiven = 2
    /\ "AR50,400-inf_c2" \in DOMAIN Table
    /\ Cardinality(DOMAIN Table) = 70

(***************************************************************************)
(* Claims about FlakeCOCOEvaluator.__init__, checked under SpecConstruct.   *)
(***************************************************************************)
\* C11: a call with output_dir None for a dataset whose metadata has no
\* json_file raises ValueError with no conversion started, no annotation file
\* loaded and the metadata still without json_file; a call with output_dir
\* None for a dataset whose metadata has a json_file returns an evaluator,
\* loading that file and converting nothing.
C11_MissingOutputDirRaisesFirst ==
    (built.kind # "not_called" /\ built.args.output_dir = None)
    => IF built.had_json_file
       THEN /\ built.kind = "return"
            /\ built.log = <<"load:" \o metadata[built.args.dataset_name].file>>
       ELSE /\ built.kind = "raise"
            /\ built.error = "ValueError"
            /\ built.log = <<>>
            /\ ~metadata[built.args.dataset_name].has

\* the ValueError for one dataset after another dataset was converted
C11_Witness ==
    /\ built.kind = "raise"
    /\ built.error = "ValueError"
    /\ built.args.output_dir = None
    /\ ~built.had_json_file
    /\ \E d \in Datasets : metadata[d] = JsonFile(CachePath("out", d))

(***************************************************************************)
(* More claims about FlakeCOCOEvaluator, checked under SpecEvaluator.       *)
(***************************************************************************)
UnsupportedConfigured ==
    \E i \in 1 .. Len(cfg._tasks) : cfg._tasks[i] \notin {"bbox", "segm", "keypoints"}
\* rank r ran evaluate() past the empty-list test on instance predictions
EvaluatedInstances(r) ==
    /\ Evaluated(r)
    /\ ret[r].consumed # <<>>
    /\ ret[r].consumed[1].has_instances

\* C12 as stated: with an unsupported task configured, evaluate() over a
\* non-empty list of instance predictions raises, with or without annotations.
C12_UnsupportedTaskAlwaysFatal ==
    \A r \in Ranks :
        (EvaluatedInstances(r) /\ UnsupportedConfigured) => ret[r].kind = "raise"

\* C12 amended: with an unsupported task configured, evaluate() over a
\* non-empty list of instance predictions raises when the dataset has
\* annotations (AssertionError at the unsupported task, after the supported
\* tasks sorted before it were evaluated, unless the unmapping of category
\* ids failed first); without annotations the tasks are not looked at and the
\* call returns an empty mapping with no metric computed, unless the unmapping
\* of category ids fails.
C12_UnsupportedTaskFatalWithAnnotations ==
    \A r \in Ranks :
        (EvaluatedInstances(r) /\ UnsupportedConfigured) =>
            /\ cfg._do_evaluation =>
                  /\ ret[r].kind = "raise"
                  /\ ret[r].error \in {"AssertionError", "KeyError"}
                  /\ DOMAIN ret[r].results \subseteq {"bbox"}
                  /\ ~cfg.id_map.has =>
                        /\ ret[r].error = "AssertionError"
                        /\ DOMAIN ret[r].results = {"bbox"}
            /\ ~cfg._do_evaluation =>
                  /\ MetricSteps(ret[r].log) = {}
                  /\ ret[r].kind = "raise" => cfg.id_map.has
                  /\ ret[r].kind = "return" => DOMAIN ret[r].value = {}

\* the assertion fails after bbox was evaluated, in a distributed run
C12_Witness ==
    /\ cfg._do_evaluation /\ cfg._distributed /\ world > 1
    /\ UnsupportedConfigured
    /\ EvaluatedInstances(0)
    /\ ret[0].kind = "raise" /\ ret[0].error = "AssertionError"
    /\ "derive:bbox" \in SeqRange(ret[0].log)
    /\ Len(ret[0].consumed) = MaxImages

(***************************************************************************)
(* Claims about Flake.__init__, checked under SpecAspect.                   *)
(***************************************************************************)
\* C13 as stated: every flake built with min_sidelength > 0 has
\* aspect_ratio >= 1.
C13_RatioAtLeastOne ==
    (aspect_ratio.set /\ min_sidelength > 0) => aspect_ratio.tenths >= 10

\* C13 amended: every flake built with integer side lengths
\* max_sidelength >= min_sidelength > 0 has aspect_ratio >= 1, and one built
\* with max_sidelength < min_sidelength has aspect_ratio <= 1 (below 1 but for
\* rounding): the constructor does not order the two side lengths.
C13_RatioAtLeastOneWhenOrdered ==
    (aspect_ratio.set /\ min_sidelength > 0) =>
        /\ max_sidelength >= min_sidelength => aspect_ratio.tenths >= 10
        /\ max_sidelength < min_sidelength => aspect_ratio.tenths <= 10
        /\ 2 * max_sidelength <= min_sidelength => aspect_ratio.tenths < 10

\* a ratio above 1 that the rounding leaves above 1
C13_Witness ==
    /\ aspect_ratio.set
    /\ min_sidelength > 1
    /\ max_sidelength > min_sidelength
    /\ aspect_ratio.tenths = 13

\* C14 as stated: every flake built with max_sidelength = min_sidelength has
\* aspect_ratio 1.0.
C14_SquareRatioIsOne ==
    (aspect_ratio.set /\ max_sidelength = min_sidelength) => aspect_ratio.tenths = 10

\* C14 amended: every flake built with max_sidelength = min_sidelength > 0
\* has aspect_ratio 1.0; with both side lengths 0 the aspect_ratio is 0.0.
C14_SquareRatioIsOneUnlessZero ==
    (aspect_ratio.set /\ max_sidelength = min_sidelength) =>
        aspect_ratio.tenths = IF min_sidelength > 0 THEN 10 ELSE 0

\* the largest square side length, whose quotient is closest to 1 from below
C14_Witness ==
    /\ aspect_ratio.set
    /\ max_sidelength = MaxSide
    /\ min_sidelength = MaxSide
    /\ aspect_ratio.tenths = 10

(***************************************************************************)
(* Further claims about evaluate(), checked under SpecEvaluator.            *)
(***************************************************************************)
AllEvaluated == \A r \in Ranks : Evaluated(r) /\ _predictions[r].set
Distinct(q) == \A i, j \in 1 .. Len(q) : q[i] = q[j] => i = j

\* C15: with distributed=True the main process evaluates the lists of all
\* processes chained in rank order, each record once and none lost, and every
\* other process returns an empty mapping, reads no prediction, writes no file
\* and computes no metric; with distributed=False a process evaluates its own
\* list only.
C15_GatherOnMainOnly ==
    /\ (cfg._distributed /\ AllEvaluated) =>
          /\ ret[0].kind # "blocked"
          /\ ImageIds(ret[0].consumed)
                = ImageIds(Chain(_predictions, 0, world - 1))
          /\ world > 1 => ret[0].consumed = Chain(_predictions, 0, world - 1)
          /\ Distinct(ImageIds(ret[0].consumed))
          /\ \A r \in Ranks \ {0} :
                /\ ReturnedEmpty(r)
                /\ ret[r].consumed = <<>>
                /\ MetricSteps(ret[r].log) = {}
    /\ ~cfg._distributed =>
          \A r \in Ranks :
              (Evaluated(r) /\ _predictions[r].set) =>
                  /\ ImageIds(ret[r].consumed) = ImageIds(_predictions[r].list)
                  /\ \A q \in Ranks \ {r} : ret[q] = NoCall

\* two processes with one record each; the main process evaluated both
C15_Witness ==
    /\ cfg._distributed /\ world = 2 /\ AllEvaluated
    /\ Len(_predictions[0].list) = 1 /\ Len(_predictions[1].list) = 1
    /\ Len(ret[0].consumed) = 2
    /\ ret[0].kind = "return" /\ DOMAIN ret[0].value # {}
    /\ ReturnedEmpty(1)

SliceValues(mode, ts, ks, a) ==
    IF mode = "AP"
    THEN { Precision(coco_eval.cell[k][a], t, r, Len(maxDets) - 1) :
             t \in ts, k \in ks, r \in 0 .. NumRecThrs - 1 }
    ELSE { Recall(coco_eval.cell[k][a], t, Len(maxDets) - 1) : t \in ts, k \in ks }
\* v is NaN if S holds the sentinel only, else a percentage (in hundredths)
\* between the least and the largest entry of S that is not the sentinel
WithinValid(v, S) ==
    LET V == { s \in S : s # Sentinel }
    IN  IF V = {} THEN v.nan
        ELSE /\ ~v.nan
             /\ \E lo \in V, hi \in V : 100 * lo <= v.x /\ v.x <= 100 * hi

\* C17: every value of a returned table is NaN or a percentage from 0 to 100,
\* never the sentinel; and every value is the NaN of a slice without valid
\* entry or lies between the least and the largest valid entry of its slice,
\* as an average does that no sentinel entered.
C17_ValuesArePercentages ==
    derived.kind = "return"
    => /\ \A key \in DOMAIN Table :
             \/ Table[key].nan
             \/ /\ 0 <= Table[key].x /\ Table[key].x <= 10000
                /\ Table[key].x # 100 * Sentinel
       /\ ~coco_eval.none =>
            /\ \A i \in 0 .. Len(MetricNames(iou_type)) - 1 :
                  WithinValid(Table[MetricNames(iou_type)[i + 1]],
                              SliceValues(StatMode(i), StatTs(i),
                                          0 .. coco_eval.cats - 1, StatArea(i)))
            /\ \A mode \in {"AP", "AR"}, a \in Areas, c \in 1 .. NamesGiven :
               \A iouThr \in AllSettings :
                  LET key == ResultKey(mode, iouThr, a, class_names.names[c])
                  IN  key \in DOMAIN Table
                      => WithinValid(Table[key],
                                     SliceValues(mode, ThrTs(iouThr), {c - 1}, a))

\* an average over the three valid entries of a slice that holds 27 sentinels
C17_Witness ==
    /\ derived.kind = "return"
    /\ iou_type = "segm"
    /\ coco_eval.cats = 1
    /\ Table["AP"] = Num(5333)
    /\ Table["AP75"].nan
    /\ Sentinel \in SliceValues("AP", DOMAIN iouThrs, {0}, 0)

(***************************************************************************)
(* Further claims about evaluate_on_dataset, checked under SpecDriver.      *)
(***************************************************************************)
\* the calls of kind op made in iterations with index >= num_warmup
Counted(op) ==
    Cardinality({ k \in DOMAIN calls : calls[k][1] = op /\ calls[k][2] >= num_warmup })
ResetDone == \E k \in DOMAIN calls : calls[k] = <<"load", num_warmup>>
\* t is a sum of n durations out of S
SumOf(t, n, S) == n * Least(S) <= t /\ t <= n * Largest(S)

\* C18: num_warmup is min(5, total - 1); once batch num_warmup is loaded the
\* totals hold the time of the iterations with index >= num_warmup only (the
\* compute total is a sum of as many model durations as the model ran in
\* those iterations, likewise the eval total; the data total covers the loads
\* after that of batch num_warmup) and the clock runs from that load; the
\* divisor of an iteration idx >= num_warmup is idx + 1 - num_warmup, the
\* number of iterations num_warmup .. idx; and a loop that ran to its end
\* reports totals of total - num_warmup iterations.
C18_WarmupExcluded ==
    /\ pc # "idle" => num_warmup = Min(WarmupCap, total - 1)
    /\ ResetDone =>
          /\ SumOf(total_compute_time, Counted("model"), ComputeSeconds)
          /\ SumOf(total_eval_time, Counted("process"), EvalSeconds)
          /\ SumOf(total_data_time, Counted("load") - 1, DataSeconds)
          /\ elapsed = total_data_time + total_compute_time + total_eval_time
    /\ (stats # NoStats /\ stats.idx >= num_warmup) =>
          /\ stats.iters_after_start = stats.idx + 1 - num_warmup
          /\ stats.iters_after_start = Cardinality(num_warmup .. stats.idx)
          /\ SumOf(stats.compute, stats.iters_after_start, ComputeSeconds)
    /\ (pc = "done" /\ CalledEvaluate /\ total > 0) =>
          /\ ResetDone
          /\ SumOf(total_compute_time, total - num_warmup, ComputeSeconds)
          /\ SumOf(total_eval_time, total - num_warmup, EvalSeconds)

\* a full run with five warm-up iterations whose reported compute total is the
\* least that the iterations after the warm-up can take
C18_Witness ==
    /\ pc = "done" /\ CalledEvaluate
    /\ num_warmup = WarmupCap
    /\ total > num_warmup + 1
    /\ Counted("model") = total - num_warmup
    /\ Len(calls) = 3 * total + 1
    /\ total_compute_time = (total - num_warmup) * Least(ComputeSeconds)
    /\ stats.iters_after_start = total - num_warmup

(***************************************************************************)
(* Claims about FlakeParams, checked under SpecParams.                      *)
(***************************************************************************)
Built == params # NotCalled /\ params.kind = "params"
InRng(a, rng) == LessEq(rng[1], a) /\ LessEq(a, rng[2])
\* areas at, next to and between the bounds of the buckets
ProbeAreas ==
    { Px(n) : n \in (0 .. 2) \cup (675 .. 678) \cup (1352 .. 1355)
                      \cup (2706 .. 2709) \cup {99999} }
    \cup { Wide(1, 0), Wide(99999, 99999), UpperLimit, Wide(100000, 1) }

\* C19: the params of a bbox or segm evaluation hold the five labels all,
\* 0-100, 100-200, 200-400, 400-inf and five ranges at the same indices:
\* [0, 1e10] for all, then [0, 676], [676, 1353], [1353, 2707], [2707, 1e10],
\* where 676 and 1353 are 100 and 200 times 1 / 0.3844^2 cut to an integer;
\* each size bucket ends where the next begins, the first begins at 0, the
\* last ends at the limit of all, and an area lies in the range of all
\* exactly if it lies in the range of a size bucket.
C19_AreaBuckets ==
    Built =>
        LET rng == params.areaRng
            lbl == params.areaRngLbl
        IN  /\ lbl = <<"all", "0-100", "100-200", "200-400", "400-inf">>
            /\ Len(rng) = 5 /\ Len(lbl) = 5
            /\ rng[1] = <<Px(0), UpperLimit>>
            /\ rng[2] = <<Px(0), Px(676)>>
            /\ rng[3] = <<Px(676), Px(1353)>>
            /\ rng[4] = <<Px(1353), Px(2707)>>
            /\ rng[5] = <<Px(2707), UpperLimit>>
            /\ 3844 * 3844 = 16 * ConversionDen
            /\ 100000000 = 16 * ConversionNum
            /\ 676 * ConversionDen <= 100 * ConversionNum
            /\ 100 * ConversionNum < 677 * ConversionDen
            /\ 1353 * ConversionDen <= 200 * ConversionNum
            /\ 200 * ConversionNum < 1354 * ConversionDen
            /\ \A i \in 2 .. 4 : rng[i][2] = rng[i + 1][1]
            /\ rng[2][1] = Px(0)
            /\ rng[5][2] = rng[1][2]
            /\ \A a \in ProbeAreas :
                  InRng(a, rng[1]) <=> \E i \in 2 .. 5 : InRng(a, rng[i])

\* the params of a segm evaluation over three images given out of order
C19_Witness ==
    /\ Built
    /\ iouType = "segm"
    /\ cocoGt.imgIds = <<3, 1, 2>>
    /\ params.imgIds = <<1, 2, 3>>
    /\ params.areaRng[3] = <<Px(676), Px(1353)>>

(***************************************************************************)
(* The naming of the standard metrics, checked under SpecDerive.            *)
(***************************************************************************)
\* the combinations of mode, IoU setting and area bucket that a standard name
\* denotes, each as the _summarize call that computes it
Denoted(name) ==
    { Call(ap, iouThr, areaRngLbl[a + 1]) :
        ap \in {0, 1}, iouThr \in AllSettings, a \in Areas }
    \cap { c \in [ap : {0, 1}, iouThr : AllSettings, areaRng : SeqRange(areaRngLbl)] :
             name = (IF c.ap = 1 THEN "AP" ELSE "AR")
                    \o (IF c.iouThr.has THEN ToString(c.iouThr.thr) ELSE "")
                    \o (IF c.areaRng # "all" THEN "," \o c.areaRng ELSE "") }

\* C20: in a returned table of a task with detections, the i-th standard name
\* is bound to stats[i], the call that fills stats[i] computes a combination
\* the name denotes, and the value under the name is the statistic of that
\* combination.
C20_NamesDenoteTheirStatistic ==
    (derived.kind = "return" /\ ~coco_eval.none) =>
        \A i \in 0 .. Len(MetricNames(iou_type)) - 1 :
            LET name == MetricNames(iou_type)[i + 1]
                c == SummarizeDetsCalls[i + 1]
            IN  /\ c \in Denoted(name)
                /\ Table[name] = StandardValue(_summarize(coco_eval, c.ap, c.iouThr,
                                                          c.areaRng, maxDets[3]))

(***************************************************************************)
(* Repeated evaluation, checked under SpecEvaluator.                        *)
(***************************************************************************)
\* C21: a call of evaluate() leaves the accumulated prediction records of
\* every process as they were, and a call of evaluate() that directly follows
\* another one on the same process, with no reset() or process() in between,
\* ends as the first did: same outcome, same returned mapping, same records
\* matched under the same category ids.
C21_EvaluateIsRepeatable ==
    [][ \A r \in Ranks :
          ret'[r].op = "evaluate" =>
              /\ _predictions' = _predictions
              /\ ret[r].op = "evaluate" =>
                    /\ ret'[r].kind = ret[r].kind
                    /\ ret'[r].error = ret[r].error
                    /\ ret'[r].value = ret[r].value
                    /\ ret'[r].coco_results = ret[r].coco_results ]_vars

(***************************************************************************)
(* Claims about the greedy matching, checked under SpecMatch.               *)
(***************************************************************************)
RowUsed(m, i) == \A k \in 1 .. n_gt : m[<<i, k>>] = Marked
ColumnUsed(m, k) == \A i \in 1 .. n_pred : m[<<i, k>>] = Marked

\* C22: for an image with at least one proposal and one ground-truth box,
\* no round fails an assertion; a round picks a proposal and a box that no
\* earlier round picked, records their IoU, which is the largest IoU left and
\* not negative, and marks both as used; and the loop ends after min(p, g)
\* rounds, with one recorded value per round among the g entries of
\* _gt_overlaps.
C22_GreedyRounds ==
    [][ /\ match_pc' # "AssertionError"
        /\ round_j' <= Min(n_pred, n_gt)
        /\ match_pc' = "appended" =>
              /\ round_j' = Min(n_pred, n_gt)
              /\ Len(_gt_overlaps') = n_gt
              /\ \A k \in 1 .. n_gt : _gt_overlaps'[k] >= 0
        /\ round_j' = round_j + 1 =>
              /\ ~RowUsed(overlaps, box_ind') /\ ~ColumnUsed(overlaps, gt_ind')
              /\ RowUsed(overlaps', box_ind') /\ ColumnUsed(overlaps', gt_ind')
              /\ _gt_overlaps'[round_j'] = overlaps[<<box_ind', gt_ind'>>]
              /\ _gt_overlaps'[round_j'] >= 0
              /\ \A c \in DOMAIN overlaps : overlaps[c] <= _gt_overlaps'[round_j'] ]_vars

\* two proposals and two boxes whose IoUs are all equal: two rounds, the
\* second on the proposal and the box the first left
C22_Witness ==
    /\ match_pc = "appended"
    /\ n_pred = 2 /\ n_gt = 2
    /\ round_j = 2
    /\ _gt_overlaps = <<30, 30>>
    /\ box_ind = 1 /\ gt_ind = 2

(***************************************************************************)
(* The divisors of evaluate_on_dataset, checked under SpecDriver.           *)
(***************************************************************************)
\* C23: for every length of the loader, 0 included, no division fails: the
\* divisor iters_after_start of every iteration is at least 1, before and
\* after the warm-up, the divisor total - num_warmup of the report is at least
\* 1, and the function never ends with ZeroDivisionError.
C23_DivisorsPositive ==
    /\ result # Raised("ZeroDivisionError")
    /\ pc # "idle" => total - num_warmup >= 1
    /\ pc \in {"load", "compute", "eval", "stats"} =>
          /\ idx + 1 - num_warmup * (IF idx >= num_warmup THEN 1 ELSE 0) >= 1
          /\ idx < num_warmup => idx + 1 >= 1
          /\ idx >= num_warmup => idx + 1 - num_warmup >= 1
    /\ stats # NoStats =>
          /\ stats.iters_after_start >= 1
          /\ stats.iters_after_start =
                IF stats.idx < num_warmup THEN stats.idx + 1
                ELSE stats.idx + 1 - num_warmup

\* an empty loader: no iteration, num_warmup is -1 and the report divides by 1
C23_Witness ==
    /\ total = 0
    /\ num_warmup = -1
    /\ pc = "done" /\ CalledEvaluate
    /\ stats = NoStats
    /\ total - num_warmup = 1

====
